---- MODULE Spec2Model ----
(***************************************************************************)
(* Regioned: a Regionalized Value State Dependence Graph.                  *)
(*                                                                         *)
(* The module models the `Graph` store (data_flow/graph.rs), the reverse   *)
(* topological visitor (visit/reverse_topological.rs), the successor index *)
(* (visit/successors.rs), the sweep (transform/sweep.rs, retain_only.rs)   *)
(* and the port rewriting primitive (transform/revise.rs).                 *)
(*                                                                         *)
(* An Id is the index of an arena slot (0-based, as in the source); the    *)
(* vectors of the source are sequences here, so slot `id` is element       *)
(* `id + 1`.                                                               *)
(***************************************************************************)
EXTENDS Integers, Sequences, FiniteSets, TLC

\* Bounds of the model.
MaxNodes == 4
MaxLinks == 2
MaxRoots == 2

\* Bounds of the graphs whose links are rewritten.
RedoNodes == 3
RedoLinks == 2

\* Bounds of the stores on which every public operation is free: slots ever allocated,
\* and regions in the list given to add_gamma.
StoreNodes == 5
StoreRegions == 2
StoreLinks == 1

\* A visitor that is used again: the slots at which the caller stops adding nodes
\* before the first run, the links it adds, and the roots of one run.
ReuseNodes == 2
ReuseLinks == 1
ReuseRoots == 1

\* Bounds of the graphs the depth-first searcher walks: nodes, and links in all
\* parameter and result lists together.
SearchNodes == 3
SearchLinks == 3

\* Bounds of the graphs with cycles that the visitor is run on step by step: slots
\* and links.
LoopNodes == 3
LoopLinks == 2

\* The number of runs of the hash-map successor cache on one instance.
PassRuns == 2

\* The number of slots of the arena whose slots are vacated and filled again, and the
\* number of links in the predecessor lists.
SlotNodes == 3
SlotLinks == 1

\* Bounds of the acyclic graphs the pass traversals are run on: slots and links.
OrderNodes == 3
OrderLinks == 3

\* The number of times an operator built by `single` is applied.
SingleCalls == 2

\* The number of calls made on the arena whose keys are followed.
KeysCalls == 6

\* The number of inputs and outputs of the compounds that are relaxed.
RelaxArity == 2

\* Bounds of the graphs whose users are moved from one producer to another.
InPlaceNodes == 4
InPlaceLinks == 1

\* The sample of port numbers (a Port is a u16 index).
Ports == {0, 1}

\* The branches of a Gamma that is relaxed, one region each.
Branches == {"then", "else"}

VARIABLES
    nodes,          \* Graph.nodes: the arena, one kind per slot ("Vacant" = removed)
    regions,        \* Graph.regions: HashMap<Id, RegionList>
    predecessors,   \* Graph.predecessors: Vec<PredecessorList>
    seen,           \* ReverseTopological.seen
    stack,          \* ReverseTopological.stack
    cache,          \* Successors.cache
    maps,           \* RelaxDependencies.maps
    versions,       \* the arena's generation tag of each slot
    log             \* the passes run so far, each with its arguments, the graph before it and its result

vars == <<nodes, regions, predecessors, seen, stack, cache, maps, versions, log>>

Top == -1

CompoundKinds == {"Gamma", "Theta", "Lambda", "Phi"}

Link(node, port) == [node |-> node, port |-> port]

\* impl From<Id> for Link: the default port.
FromId(node) == Link(node, 0)

Region(start, end) == [start |-> start, end |-> end]

Range(s) == {s[i] : i \in 1 .. Len(s)}

RECURSIVE Reverse(_)
Reverse(s) == IF s = <<>> THEN <<>> ELSE Append(Reverse(Tail(s)), Head(s))

RECURSIVE SumLen(_)
SumLen(s) == IF s = <<>> THEN 0 ELSE Len(Head(s)) + SumLen(Tail(s))

\* The graph as one value.
Graph == [nodes |-> nodes, regions |-> regions, predecessors |-> predecessors]

IsLive(g, id) == id \in 0 .. (Len(g.nodes) - 1) /\ g.nodes[id + 1] # "Vacant"

Live(g) == {id \in 0 .. (Len(g.nodes) - 1) : g.nodes[id + 1] # "Vacant"}

IsCompound(g, id) == g.nodes[id + 1] \in CompoundKinds

\* The number of live nodes.
ActiveCount(g) == Cardinality(Live(g))

\* The number of slots the arena has used.
ActiveSlots(g) == Len(g.nodes)

\* Graph::active: one past the largest live index, 0 for an empty arena.
Active(g) ==
    IF Live(g) = {} THEN 0
    ELSE (CHOOSE m \in Live(g) : \A k \in Live(g) : k <= m) + 1

PredsOf(g, id) == g.predecessors[id + 1]

RegionsOf(g, id) == IF id \in DOMAIN g.regions THEN g.regions[id] ELSE <<>>

----------------------------------------------------------------------------
(* Reachability through predecessor links and compound-to-marker ownership. *)

Neighbors(g, id) ==
    {PredsOf(g, id)[i].node : i \in 1 .. Len(PredsOf(g, id))}
    \cup UNION {{RegionsOf(g, id)[i].start, RegionsOf(g, id)[i].end} :
                    i \in 1 .. Len(RegionsOf(g, id))}

RECURSIVE Closure(_, _)
Closure(g, S) ==
    LET T == S \cup UNION {Neighbors(g, id) : id \in S}
    IN  IF T = S THEN S ELSE Closure(g, T)

Reachable(g, roots) == Closure(g, Range(roots))

----------------------------------------------------------------------------
(* The store: data_flow/graph.rs *)

\* Graph::add_node: the arena has no vacant slot, so the new key indexes a new last slot.
AddNodeTo(g, kind) ==
    [g EXCEPT !.nodes = Append(@, kind),
              !.predecessors = IF Len(g.nodes) < Len(@)
                               THEN [@ EXCEPT ![Len(g.nodes) + 1] = <<>>]
                               ELSE Append(@, <<>>)]

\* add_node that leaves the predecessor list of a slot it finds as it is.
InsertAtStale(g, kind, slot) ==
    [g EXCEPT !.nodes = IF slot < Len(@) THEN [@ EXCEPT ![slot + 1] = kind]
                        ELSE Append(@, kind),
              !.predecessors = IF slot < Len(@) THEN @ ELSE Append(@, <<>>)]

\* Graph::add_node where the arena puts the node in slot `slot`: a vacant slot or a new
\* last one.
InsertAt(g, kind, slot) ==
    [g EXCEPT !.nodes = IF slot < Len(@) THEN [@ EXCEPT ![slot + 1] = kind]
                        ELSE Append(@, kind),
              !.predecessors = IF slot < Len(@) THEN [@ EXCEPT ![slot + 1] = <<>>]
                               ELSE Append(@, <<>>)]

\* The release profile's identifier: no tag.
IdTagNil(version) == 0

\* The debug profile's identifier: the slot's generation is part of the key.
IdTag(version) == version

Key(index, version) == [index |-> index, tag |-> IdTag(version)]

\* The generation a slot gets when a node is put in it.
NextVersion(vs, slot) == IF slot < Len(vs) THEN vs[slot + 1] + 1 ELSE 1

\* Optional access: the key names a live slot of the same generation.
resolves(g, vs, key) ==
    /\ IsLive(g, key.index)
    /\ key.index < Len(vs)
    /\ IdTag(vs[key.index + 1]) = key.tag

\* Graph::add_region
AddRegionTo(g) == AddNodeTo(AddNodeTo(g, "Start"), "End")

\* self.regions.insert(id, list)
InsertRegions(g, id, list) ==
    [g EXCEPT !.regions =
        [c \in DOMAIN @ \cup {id} |-> IF c = id THEN list ELSE @[c]]]

\* Graph::add_compound
AddCompoundTo(g, kind) ==
    LET id == Len(g.nodes)
    IN  InsertRegions(AddRegionTo(AddNodeTo(g, kind)), id, <<Region(id + 1, id + 2)>>)

\* Graph::add_gamma
AddGammaTo(g, list) == InsertRegions(AddNodeTo(g, "Gamma"), Len(g.nodes), list)

\* Graph::clear: the arena and the region map are emptied, the predecessor lists stay.
ClearOf(g) == [g EXCEPT !.nodes = <<>>, !.regions = <<>>]

\* try_remove that answers with the slot's content whether the key is live or not.
removed_any(g, id) == <<g.nodes[id + 1]>>

\* What try_remove returns: the node of a live key, nothing otherwise.
removed(g, id) == IF IsLive(g, id) THEN <<g.nodes[id + 1]>> ELSE <<>>

\* Graph::remove_node: try_remove leaves the arena as it is for a key that is not live.
RemoveNodeFrom(g, id) ==
    IF IsLive(g, id) THEN [g EXCEPT !.nodes[id + 1] = "Vacant"] ELSE g

\* remove_region with the end marker forgotten.
RemoveRegionStartOnly(g, region) == RemoveNodeFrom(g, region.start)

\* Graph::remove_region
RemoveRegionFrom(g, region) == RemoveNodeFrom(RemoveNodeFrom(g, region.start), region.end)

RECURSIVE RemoveRegionsFrom(_, _)
RemoveRegionsFrom(g, list) ==
    IF list = <<>> THEN g
    ELSE RemoveRegionsFrom(RemoveRegionFrom(g, Head(list)), Tail(list))

\* Graph::remove_compound: nothing happens for an id without a region list.
RemoveCompoundFrom(g, id) ==
    IF id \notin DOMAIN g.regions THEN g
    ELSE RemoveNodeFrom(
             RemoveRegionsFrom([g EXCEPT !.regions = [c \in DOMAIN @ \ {id} |-> @[c]]],
                               g.regions[id]),
             id)

----------------------------------------------------------------------------
(* The data-model invariants a caller keeps while it builds a graph: regions nest,  *)
(* a region has one owner, a link stays inside one region, Start has no inputs,    *)
(* End has no outputs, and there is no cycle.                                      *)

\* The regions allocated so far (add_region allocates the start, then the end).
RegionsIn(g) ==
    {Region(s, s + 1) : s \in {i \in Live(g) : g.nodes[i + 1] = "Start"}}

\* The regions some compound owns.
OwnedIn(g) == UNION {Range(g.regions[c]) : c \in DOMAIN g.regions}

IsMarker(g, id) == g.nodes[id + 1] \in {"Start", "End"}

\* The region a marker brackets, named by its start.
MarkerRegion(g, id) == IF g.nodes[id + 1] = "Start" THEN id ELSE id - 1

\* A placement puts every node that is no marker in a region, or at the top (Top);
\* a marker lies in the region it brackets.
Placed(g, f, id) == IF IsMarker(g, id) THEN MarkerRegion(g, id) ELSE f[id]

\* The regions around region `r`, itself included, under placement `f`.
RECURSIVE Around(_, _, _)
Around(g, f, S) ==
    LET T == S \cup {Placed(g, f, c) : c \in {c \in DOMAIN g.regions :
                        \E i \in 1 .. Len(g.regions[c]) : g.regions[c][i].start \in S}}
    IN  IF T = S THEN S ELSE Around(g, f, T)

WellScoped(g) ==
    \E f \in [{id \in Live(g) : ~IsMarker(g, id)} ->
                {Top} \cup {r.start : r \in RegionsIn(g)}] :
        /\ \A id \in Live(g) : \A i \in 1 .. Len(PredsOf(g, id)) :
               Placed(g, f, id) = Placed(g, f, PredsOf(g, id)[i].node)
        /\ \A c \in DOMAIN g.regions : \A i \in 1 .. Len(g.regions[c]) :
               g.regions[c][i].start \notin Around(g, f, {Placed(g, f, c)})

SetGraph(g) ==
    /\ nodes' = g.nodes
    /\ regions' = g.regions
    /\ predecessors' = g.predecessors

Building == log = <<>>

AddNode ==
    /\ Building
    /\ Len(nodes) + 1 <= MaxNodes
    /\ SetGraph(AddNodeTo(Graph, "Simple"))
    /\ UNCHANGED <<seen, stack, cache, maps, versions, log>>

AddRegion ==
    /\ Building
    /\ Len(nodes) + 2 <= MaxNodes
    /\ SetGraph(AddRegionTo(Graph))
    /\ UNCHANGED <<seen, stack, cache, maps, versions, log>>

AddCompound(kind) ==
    /\ Building
    /\ Len(nodes) + 3 <= MaxNodes
    /\ SetGraph(AddCompoundTo(Graph, kind))
    /\ UNCHANGED <<seen, stack, cache, maps, versions, log>>

\* add_gamma with regions that have no owner yet, each named once.
AddGamma(list) ==
    /\ Building
    /\ Len(nodes) + 1 <= MaxNodes
    /\ Range(list) \subseteq RegionsIn(Graph) \ OwnedIn(Graph)
    /\ \A i, j \in 1 .. Len(list) : list[i] = list[j] => i = j
    /\ WellScoped(AddGammaTo(Graph, list))
    /\ SetGraph(AddGammaTo(Graph, list))
    /\ UNCHANGED <<seen, stack, cache, maps, versions, log>>

\* graph.predecessors[id].push(link)
PushLink(g, id, link) == [g EXCEPT !.predecessors[id + 1] = Append(@, link)]

Connect(id, link) ==
    /\ Building
    /\ IsLive(Graph, id) /\ IsLive(Graph, link.node)
    /\ nodes[id + 1] # "Start"
    /\ nodes[link.node + 1] # "End"
    /\ id \notin Closure(Graph, {link.node})
    /\ WellScoped(PushLink(Graph, id, link))
    /\ SetGraph(PushLink(Graph, id, link))
    /\ UNCHANGED <<seen, stack, cache, maps, versions, log>>

----------------------------------------------------------------------------
(* The visitor: visit/reverse_topological.rs *)

Entry(tag, id, count) == [tag |-> tag, id |-> id, count |-> count]

\* A visitor in the middle of a run: the seen vector, the work stack (its top is the
\* last element), what the function was applied to so far, and whether an index
\* operation aborted the run.
Visitor(sn, st) == [seen |-> sn, stack |-> st, out |-> <<>>, panic |-> FALSE]

Abort(v) == [v EXCEPT !.panic = TRUE]

\* add_node_by_id without the test of `seen`.
add_node_by_id_unguarded(v, g, id) ==
    IF v.panic THEN v
    ELSE IF id \notin 0 .. (Len(v.seen) - 1) THEN Abort(v)
    ELSE IF id \notin 0 .. (Len(g.predecessors) - 1) THEN Abort(v)
    ELSE [v EXCEPT !.seen[id + 1] = TRUE,
                   !.stack = Append(@, Entry("Predecessors", id, Len(PredsOf(g, id))))]

add_node_by_id(v, g, id) ==
    IF v.panic THEN v
    ELSE IF id \notin 0 .. (Len(v.seen) - 1) THEN Abort(v)
    ELSE IF v.seen[id + 1] THEN v
    ELSE IF id \notin 0 .. (Len(g.predecessors) - 1) THEN Abort(v)
    ELSE [v EXCEPT !.seen[id + 1] = TRUE,
                   !.stack = Append(@, Entry("Predecessors", id, Len(PredsOf(g, id))))]

\* add_region with the start marker forgotten.
add_region_end_only(v, g, region) == add_node_by_id(v, g, region.end)

add_region(v, g, region) ==
    add_node_by_id(add_node_by_id(v, g, region.end), g, region.start)

\* region_count_checked aborts on a vacant slot and on a compound without a region entry.
region_count_checked(g, id) ==
    IF ~IsLive(g, id) THEN -1
    ELSE IF ~IsCompound(g, id) THEN 0
    ELSE IF id \notin DOMAIN g.regions THEN -1
    ELSE Len(g.regions[id])

Push(v, e) == [v EXCEPT !.stack = Append(@, e)]

handle_predecessor(v, g, count, id) ==
    IF count >= 1
    THEN LET c == count - 1
             list == PredsOf(g, id)
         IN  add_node_by_id(Push(v, Entry("Predecessors", id, c)), g,
                            list[Len(list) - c].node)
    ELSE LET n == region_count_checked(g, id)
         IN  IF n < 0 THEN Abort(v) ELSE Push(v, Entry("Regions", id, n))

handle_region(v, g, count, id) ==
    IF count >= 1
    THEN LET c == count - 1
             list == g.regions[id]
         IN  add_region(Push(v, Entry("Regions", id, c)), g, list[Len(list) - c])
    ELSE Push(v, Entry("Node", id, 0))

RECURSIVE AddRoots(_, _, _)
AddRoots(v, g, roots) ==
    IF roots = <<>> THEN v
    ELSE AddRoots(add_node_by_id(v, g, Head(roots)), g, Tail(roots))

\* set_up_roots with the resize alone: the marks of the run before are kept.
set_up_roots_resized(v, g, roots) ==
    LET kept == [v EXCEPT !.seen = [i \in 1 .. Active(g) |->
                                       IF i <= Len(v.seen) THEN v.seen[i] ELSE FALSE]]
        added == AddRoots(kept, g, roots)
    IN  IF added.panic THEN added ELSE [added EXCEPT !.stack = Reverse(@)]

set_up_roots(v, g, roots) ==
    LET cleared == [v EXCEPT !.seen = [i \in 1 .. Active(g) |-> FALSE]]
        added == AddRoots(cleared, g, roots)
    IN  IF added.panic THEN added ELSE [added EXCEPT !.stack = Reverse(@)]

RECURSIVE Drain(_, _)
Drain(v, g) ==
    IF v.panic \/ v.stack = <<>> THEN v
    ELSE LET e == v.stack[Len(v.stack)]
             popped == [v EXCEPT !.stack = SubSeq(@, 1, Len(@) - 1)]
         IN  Drain(CASE e.tag = "Predecessors" -> handle_predecessor(popped, g, e.count, e.id)
                     [] e.tag = "Regions" -> handle_region(popped, g, e.count, e.id)
                     [] OTHER -> [popped EXCEPT !.out = Append(@, e.id)],
                   g)

\* ReverseTopological::run_with, with `out` the ids the function was applied to, in order.
run_with(sn, st, g, roots) == Drain(set_up_roots(Visitor(sn, st), g, roots), g)

\* Root lists of at most `n` distinct live ids in any order, and a root named twice.
RootListsUpTo(n) ==
    {r \in UNION {[1 .. k -> Live(Graph)] : k \in 0 .. n} :
        \A i, j \in 1 .. Len(r) : r[i] = r[j] => i = j}
    \cup {<<id, id>> : id \in Live(Graph)}

\* The root lists given to the visitor.
RootLists == RootListsUpTo(MaxRoots)

\* The root lists given to the passes built on the visitor: no root, one, or two. What
\* a pass does with the roots is to hand them to the visitor, whose root lists are the
\* longer ones above.
PassRoots == RootListsUpTo(2)

Done(op, roots, pre, out, panic) ==
    [op |-> op, roots |-> roots, pre |-> pre, out |-> out, panic |-> panic]

Last == log[Len(log)]

RunWith(roots) ==
    /\ log = <<>>
    /\ \E v \in {run_with(seen, stack, Graph, roots)} :
           /\ seen' = v.seen
           /\ stack' = v.stack
           /\ log' = Append(log, Done("run_with", roots, Graph, v.out, v.panic))
    /\ UNCHANGED <<nodes, regions, predecessors, cache, maps, versions>>

----------------------------------------------------------------------------
(* The sweep: transform/sweep.rs and transform/retain_only.rs *)

\* graph.nodes.retain(|id, _| seen[id]) with the test left out: nothing is removed.
retain_nodes_all(g, sn) == g.nodes

\* graph.nodes.retain(|id, _| seen[id]) with the test negated.
retain_nodes_negated(g, sn) ==
    [i \in 1 .. Len(g.nodes) |->
        IF g.nodes[i] # "Vacant" /\ ~sn[i] THEN g.nodes[i] ELSE "Vacant"]

\* graph.nodes.retain(|id, _| seen[id])
retain_nodes(g, sn) ==
    [i \in 1 .. Len(g.nodes) |->
        IF g.nodes[i] # "Vacant" /\ sn[i] THEN g.nodes[i] ELSE "Vacant"]

\* graph.regions.retain(|id, _| seen[*id]) left out, as where there is no region map.
retain_regions_all(g, sn) == g.regions

\* graph.regions.retain(|id, _| seen[*id]) with the test negated.
retain_regions_negated(g, sn) ==
    [c \in {c \in DOMAIN g.regions : ~sn[c + 1]} |-> g.regions[c]]

\* graph.regions.retain(|id, _| seen[*id])
retain_regions(g, sn) ==
    [c \in {c \in DOMAIN g.regions : sn[c + 1]} |-> g.regions[c]]

\* seen[*id] aborts for a key of the region map that is not below the length of seen.
RetainAborts(g, sn) == \E c \in DOMAIN g.regions : c >= Len(sn)

\* run: mark with the visitor, then retain what it has seen. An abort in the visitor
\* leaves the graph as it was; one in the second retain leaves the region map as it was.
sweep_run(g, v) ==
    IF v.panic THEN [graph |-> g, panic |-> TRUE]
    ELSE IF RetainAborts(g, v.seen)
         THEN [graph |-> [g EXCEPT !.nodes = retain_nodes(g, v.seen)], panic |-> TRUE]
         ELSE [graph |-> [g EXCEPT !.nodes = retain_nodes(g, v.seen),
                                   !.regions = retain_regions(g, v.seen)],
               panic |-> FALSE]

\* A sweep, and after it one more sweep from the same roots; or a sweep from the roots
\* of the index after a relaxation.
Sweep(roots) ==
    /\ \/ log = <<>>
       \/ /\ Len(log) = 1
          /\ Last.op = "sweep" /\ ~Last.panic
          /\ roots = Last.roots
       \/ /\ Len(log) = 2
          /\ Last.op = "relax" /\ ~Last.panic
          /\ roots = log[1].roots
    /\ \E v \in {run_with(seen, stack, Graph, roots)} :
       \E r \in {sweep_run(Graph, v)} :
           /\ seen' = v.seen
           /\ stack' = v.stack
           /\ SetGraph(r.graph)
           /\ log' = Append(log, Done("sweep", roots, Graph, v.out, r.panic))
    /\ UNCHANGED <<cache, maps, versions>>

----------------------------------------------------------------------------
(* The successor index: visit/successors.rs *)

\* for predecessor in nodes[id].parameters(): push id onto cache[predecessor.node] if absent.
RECURSIVE add_links(_, _, _)
add_links(st, id, links) ==
    IF links = <<>> \/ st.panic THEN st
    ELSE LET n == Head(links).node
         IN  IF n >= Len(st.cache) THEN [st EXCEPT !.panic = TRUE]
             ELSE add_links(
                    IF id \in Range(st.cache[n + 1]) THEN st
                    ELSE [st EXCEPT !.cache[n + 1] = Append(@, id)],
                    id, Tail(links))

RECURSIVE add_all(_, _, _)
add_all(st, g, ids) ==
    IF ids = <<>> \/ st.panic THEN st
    ELSE add_all(add_links(st, Head(ids), PredsOf(g, Head(ids))), g, Tail(ids))

\* The lists are kept and not cleared.
clear_lists_kept(c) == c

\* self.cache.iter_mut().for_each(SuccessorList::clear)
clear_lists(c) == [i \in 1 .. Len(c) |-> <<>>]

\* self.cache.resize_with(active, SuccessorList::new) when the cache is shorter
resize(c, active) ==
    IF Len(c) < active THEN c \o [i \in 1 .. (active - Len(c)) |-> <<>>] ELSE c

\* Successors::run: the lists are cleared, the cache grown to active(), and every node
\* the visitor yields is entered under the producer of each of its links.
successors_run(c, g, v) ==
    add_all([cache |-> resize(clear_lists(c), Active(g)), panic |-> v.panic], g, v.out)

\* A run of the index, and after it one more from the roots without the first; or a
\* rebuild from the first roots after the graph was rewritten or swept.
SuccessorsRun(roots) ==
    /\ \/ log = <<>>
       \/ /\ Len(log) = 1
          /\ Last.op = "successors" /\ ~Last.panic
          /\ Last.roots # <<>>
          /\ roots = Tail(Last.roots)
       \/ /\ Len(log) >= 2
          /\ Last.op \in {"redo_ports_in_place", "sweep"} /\ ~Last.panic
          /\ roots = log[1].roots
    /\ \E v \in {run_with(seen, stack, Graph, roots)} :
       \E r \in {successors_run(cache, Graph, v)} :
           /\ seen' = v.seen
           /\ stack' = v.stack
           /\ cache' = r.cache
           /\ log' = Append(log, Done("successors", roots, Graph, v.out, r.panic))
    /\ UNCHANGED <<nodes, regions, predecessors, maps, versions>>

----------------------------------------------------------------------------
(* Rewriting ports: transform/revise.rs *)

\* Option<Link>
None == <<>>

Some(link) == <<link>>

\* The filter left out: every link of a listed successor is relevant.
relevant_any(link, id) == TRUE

\* let relevant = |predecessor| predecessor.node() == id
relevant(link, id) == link.node = id

\* A replacement counts only when it changes the link.
count_changed(applied, old, link) == IF old = link THEN applied ELSE applied + 1

\* applied += 1
count(applied, old, link) == applied + 1

\* The loop with applied += 1 for every relevant link, replaced or not.
RECURSIVE redo_each_counted(_, _, _, _, _)
redo_each_counted(st, id, redo, s, i) ==
    IF i > Len(st.predecessors[s + 1]) THEN st
    ELSE LET old == st.predecessors[s + 1][i]
         IN  redo_each_counted(
                IF relevant(old, id)
                THEN IF redo[old.port] # None
                     THEN [st EXCEPT !.predecessors[s + 1][i] = redo[old.port][1],
                                     !.applied = count(@, old, redo[old.port][1])]
                     ELSE [st EXCEPT !.applied = @ + 1]
                ELSE st,
                id, redo, s, i + 1)

\* The loop with the link written to name the successor itself.
RECURSIVE redo_each_self(_, _, _, _, _)
redo_each_self(st, id, redo, s, i) ==
    IF i > Len(st.predecessors[s + 1]) THEN st
    ELSE LET old == st.predecessors[s + 1][i]
         IN  redo_each_self(
                IF relevant(old, id) /\ redo[old.port] # None
                THEN [st EXCEPT !.predecessors[s + 1][i] = Link(s, redo[old.port][1].port),
                                !.applied = count(@, old, redo[old.port][1])]
                ELSE st,
                id, redo, s, i + 1)

\* for predecessor in predecessors[s].iter_mut().filter(relevant): from position `i` on.
RECURSIVE redo_each(_, _, _, _, _)
redo_each(st, id, redo, s, i) ==
    IF i > Len(st.predecessors[s + 1]) THEN st
    ELSE LET old == st.predecessors[s + 1][i]
         IN  redo_each(
                IF relevant(old, id) /\ redo[old.port] # None
                THEN [st EXCEPT !.predecessors[s + 1][i] = redo[old.port][1],
                                !.applied = count(@, old, redo[old.port][1])]
                ELSE st,
                id, redo, s, i + 1)

\* for &successors in &successors.cache()[id]; predecessors[s] aborts out of bounds.
RECURSIVE redo_over(_, _, _, _)
redo_over(st, id, redo, list) ==
    IF list = <<>> \/ st.panic THEN st
    ELSE IF Head(list) >= Len(st.predecessors) THEN [st EXCEPT !.panic = TRUE]
    ELSE redo_over(redo_each(st, id, redo, Head(list), 1), id, redo, Tail(list))

\* redo_ports: cache()[id] aborts when the index has no list for `id`.
redo_ports(preds, c, id, redo) ==
    LET st == [predecessors |-> preds, applied |-> 0, panic |-> FALSE]
    IN  IF id >= Len(c) THEN [st EXCEPT !.panic = TRUE]
        ELSE redo_over(st, id, redo, c[id + 1])

Redone(id, redo, pre, applied, panic) ==
    [op |-> "redo_ports", id |-> id, redo |-> redo, pre |-> pre,
     applied |-> applied, panic |-> panic]

RedoPorts(id, redo) ==
    /\ log # <<>>
    /\ ~Last.panic
    /\ \E r \in {redo_ports(predecessors, cache, id, redo)} :
           /\ predecessors' = r.predecessors
           /\ log' = Append(log, Redone(id, redo, Graph, r.applied, r.panic))
    /\ UNCHANGED <<nodes, regions, seen, stack, cache, maps, versions>>

\* |port| Some(Link::new(to, port)) with the port dropped.
in_place_first_port(to) == [p \in Ports |-> Some(Link(to, 0))]

\* |port| Some(Link::new(to, port))
in_place(to) == [p \in Ports |-> Some(Link(to, p))]

\* redo_ports_in_place with `from` and `to` exchanged.
redo_ports_in_place_swapped(preds, c, from, to) == redo_ports(preds, c, to, in_place(from))

\* redo_ports_in_place
redo_ports_in_place(preds, c, from, to) == redo_ports(preds, c, from, in_place(to))

Moved(from, to, pre, applied, panic) ==
    [op |-> "redo_ports_in_place", from |-> from, to |-> to, pre |-> pre,
     applied |-> applied, panic |-> panic]

RedoPortsInPlace(from, to) ==
    /\ log # <<>>
    /\ ~Last.panic
    /\ \E r \in {redo_ports_in_place(predecessors, cache, from, to)} :
           /\ predecessors' = r.predecessors
           /\ log' = Append(log, Moved(from, to, Graph, r.applied, r.panic))
    /\ UNCHANGED <<nodes, regions, seen, stack, cache, maps, versions>>

----------------------------------------------------------------------------
(* Invariant-input relaxation: transform/relax_dependencies.rs *)

\* parameters[port] aborts when the port is not below the length of the list.
passthrough_aborts(parameters, start, end) ==
    start = end.node /\ end.port >= Len(parameters)

\* load_passthrough with the test of the producer left out.
load_passthrough_any(parameters, start, end) ==
    IF end.port < Len(parameters) THEN Some(parameters[end.port + 1]) ELSE None

\* load_passthrough
load_passthrough(parameters, start, end) ==
    IF start = end.node THEN Some(parameters[end.port + 1]) ELSE None

\* add_map_results: one entry for each input of the region's end marker.
add_map_results(g, parameters, region) ==
    [i \in 1 .. Len(PredsOf(g, region.end)) |->
        load_passthrough(parameters, region.start, PredsOf(g, region.end)[i])]

\* for (&result, old) in results.zip(&mut self.maps): pairs up to the shorter length.
narrow(m, g, parameters, region) ==
    [i \in 1 .. Len(m) |->
        IF /\ i <= Len(PredsOf(g, region.end))
           /\ load_passthrough(parameters, region.start, PredsOf(g, region.end)[i]) # m[i]
        THEN None
        ELSE m[i]]

RECURSIVE narrow_all(_, _, _, _)
narrow_all(m, g, parameters, list) ==
    IF list = <<>> THEN m
    ELSE narrow_all(narrow(m, g, parameters, Head(list)), g, parameters, Tail(list))

\* run_gamma: the first region gives the entries, every further region clears those it
\* does not agree with.
run_gamma(g, parameters, list) ==
    narrow_all(add_map_results(g, parameters, Head(list)), g, parameters, Tail(list))

\* run_theta with the comparison against the start port left out.
run_theta_unchecked(g, parameters, region) == add_map_results(g, parameters, region)

\* run_theta: an entry stays only where the end marker's input at position i is the
\* start marker's port i.
run_theta(g, parameters, region) ==
    [i \in 1 .. Len(PredsOf(g, region.end)) |->
        IF PredsOf(g, region.end)[i] # Link(region.start, i - 1)
        THEN None
        ELSE add_map_results(g, parameters, region)[i]]

\* The calls that abort while the entries are computed: expect on a Gamma without a
\* region, and parameters[port] out of bounds.
maps_abort(g, id) ==
    \/ RegionsOf(g, id) = <<>>
    \/ \E i \in 1 .. (IF g.nodes[id + 1] = "Gamma" THEN Len(RegionsOf(g, id)) ELSE 1) :
       \E k \in 1 .. Len(PredsOf(g, RegionsOf(g, id)[i].end)) :
           passthrough_aborts(PredsOf(g, id), RegionsOf(g, id)[i].start,
                              PredsOf(g, RegionsOf(g, id)[i].end)[k])

\* A closure that yields no link at any port.
maps_redo_none(m) == [p \in 0 .. (Len(m) - 1) |-> None]

\* |port| self.maps[usize::from(port)], over the ports in use.
maps_redo(m) == [p \in 0 .. (Len(m) - 1) |-> m[p + 1]]

\* self.maps[port] aborts for a link of a listed successor at a port without an entry.
redo_aborts(g, c, id, m) ==
    \/ id >= Len(c)
    \/ \E k \in 1 .. Len(c[id + 1]) :
           \/ c[id + 1][k] >= Len(g.predecessors)
           \/ \E i \in 1 .. Len(PredsOf(g, c[id + 1][k])) :
                  /\ PredsOf(g, c[id + 1][k])[i].node = id
                  /\ PredsOf(g, c[id + 1][k])[i].port >= Len(m)

\* The match with every compound kind sent to run_theta.
relaxes_compounds(kind) == kind \in CompoundKinds

\* match &compound: the Gamma and Theta arms; every other kind returns None.
relaxes(kind) == kind \in {"Gamma", "Theta"}

\* The call of redo_ports with the start marker of the first region in place of `id`.
relax_redo_start(g, c, id, m) ==
    redo_ports(g.predecessors, c, RegionsOf(g, id)[1].start, maps_redo(m))

\* redo_ports(nodes, successors, id, |port| self.maps[usize::from(port)])
relax_redo(g, c, id, m) == redo_ports(g.predecessors, c, id, maps_redo(m))

\* RelaxDependencies::run. The result is Option<usize>; an abort leaves the graph as it
\* was found.
relax_run(g, c, m, id) ==
    LET kept == [predecessors |-> g.predecessors, maps |-> m, result |-> None,
                 panic |-> FALSE]
    IN  IF ~IsLive(g, id) THEN [kept EXCEPT !.panic = TRUE]
        ELSE IF ~relaxes(g.nodes[id + 1]) THEN kept
        ELSE IF maps_abort(g, id) THEN [kept EXCEPT !.panic = TRUE]
        ELSE LET new == IF g.nodes[id + 1] = "Gamma"
                        THEN run_gamma(g, PredsOf(g, id), RegionsOf(g, id))
                        ELSE run_theta(g, PredsOf(g, id), RegionsOf(g, id)[1])
             IN  IF redo_aborts(g, c, id, new)
                 THEN [kept EXCEPT !.maps = new, !.panic = TRUE]
                 ELSE LET r == relax_redo(g, c, id, new)
                      IN  [predecessors |-> r.predecessors, maps |-> new,
                           result |-> <<r.applied>>, panic |-> FALSE]

Relaxed(id, pre, result, panic) ==
    [op |-> "relax", id |-> id, pre |-> pre, result |-> result, panic |-> panic]

\* A relaxation after the index was built, and one more of the same node after a sweep
\* and a rebuild of the index.
Relax(id) ==
    /\ log # <<>>
    /\ Last.op = "successors" /\ ~Last.panic
    /\ \/ Len(log) = 1
       \/ Len(log) = 4 /\ log[2].op = "relax" /\ id = log[2].id
    /\ \E r \in {relax_run(Graph, cache, maps, id)} :
           /\ predecessors' = r.predecessors
           /\ maps' = r.maps
           /\ log' = Append(log, Relaxed(id, Graph, r.result, r.panic))
    /\ UNCHANGED <<nodes, regions, seen, stack, cache, versions>>

----------------------------------------------------------------------------
(* The store whose nodes hold their parameters: data_flow/nodes.rs. A node's parameter  *)
(* list is kept in `predecessors`, a compound's regions in `regions`.                   *)

\* self.nodes.insert(node), the node holding `params`.
NodesInsert(g, kind, params) ==
    [AddNodeTo(g, kind) EXCEPT !.predecessors[Len(g.nodes) + 1] = params]

\* Nodes::add_region, with a `results` closure that adds one simple node reading the
\* start marker and returns the list `results`.
NodesAddRegion(g, results) ==
    LET start == Len(g.nodes)
        body == NodesInsert(NodesInsert(g, "Start", <<>>), "Simple", <<FromId(start)>>)
    IN  NodesInsert(body, "End", results)

\* Nodes::add_gamma
NodesAddGamma(g, parameters, list) ==
    InsertRegions(NodesInsert(g, "Gamma", parameters), Len(g.nodes), list)

\* Nodes::add_theta, add_lambda, add_phi
NodesAddTheta(g, kind, parameters, results) ==
    LET h == NodesAddRegion(g, results)
    IN  InsertRegions(NodesInsert(h, kind, parameters), Len(h.nodes),
                      <<Region(Len(g.nodes), Len(g.nodes) + 2)>>)

\* The start markers of the regions added so far.
StartsOf(g) == {i \in Live(g) : g.nodes[i + 1] = "Start"}

\* The regions added so far, in the order they were added.
RECURSIVE RegionsFrom(_)
RegionsFrom(S) ==
    IF S = {} THEN <<>>
    ELSE LET m == CHOOSE m \in S : \A k \in S : m <= k
         IN  <<Region(m, m + 2)>> \o RegionsFrom(S \ {m})

\* The lists a `results` closure returns for the region that starts at `start`: input i
\* of the end marker is port i of the start marker, the port after it, or the body node.
EndLists(start) ==
    {l \in [1 .. RelaxArity -> {Link(start, q) : q \in 0 .. (RelaxArity - 1)}
                                  \cup {FromId(start + 1)}] :
        \A i \in 1 .. RelaxArity :
            l[i] \in {Link(start, i - 1), Link(start, i % RelaxArity), FromId(start + 1)}}

\* The parameter lists of the compound: ports of the first node.
ParamLists == [1 .. RelaxArity -> {Link(0, q) : q \in Ports}]

\* The parameter lists of the user: every output of compound `c`, or its first output,
\* and a link to the first node.
UserLists(c) ==
    {[i \in 1 .. RelaxArity |-> Link(c, i - 1)] \o <<FromId(0)>>, <<FromId(c), FromId(0)>>}

HasUser == DOMAIN regions # {} /\ nodes[Len(nodes)] = "Simple"

RelaxSimple ==
    /\ Building
    /\ nodes = <<>>
    /\ SetGraph(NodesInsert(Graph, "Simple", <<>>))
    /\ UNCHANGED <<seen, stack, cache, maps, versions, log>>

RelaxRegion ==
    /\ Building
    /\ nodes # <<>>
    /\ DOMAIN regions = {}
    /\ Cardinality(StartsOf(Graph)) < Cardinality(Branches)
    /\ \E results \in EndLists(Len(nodes)) : SetGraph(NodesAddRegion(Graph, results))
    /\ UNCHANGED <<seen, stack, cache, maps, versions, log>>

RelaxGamma ==
    /\ Building
    /\ DOMAIN regions = {}
    /\ StartsOf(Graph) # {}
    /\ \E parameters \in ParamLists :
           SetGraph(NodesAddGamma(Graph, parameters, RegionsFrom(StartsOf(Graph))))
    /\ UNCHANGED <<seen, stack, cache, maps, versions, log>>

RelaxTheta ==
    /\ Building
    /\ Len(nodes) = 1
    /\ \E kind \in {"Theta", "Lambda", "Phi"}, parameters \in ParamLists,
          results \in EndLists(Len(nodes)) :
           SetGraph(NodesAddTheta(Graph, kind, parameters, results))
    /\ UNCHANGED <<seen, stack, cache, maps, versions, log>>

RelaxUser ==
    /\ Building
    /\ nodes # <<>>
    /\ nodes[Len(nodes)] \in CompoundKinds
    /\ \E params \in UserLists(Len(nodes) - 1) :
           SetGraph(NodesInsert(Graph, "Simple", params))
    /\ UNCHANGED <<seen, stack, cache, maps, versions, log>>

----------------------------------------------------------------------------

Init ==
    /\ nodes = <<>>
    /\ regions = <<>>
    /\ predecessors = <<>>
    /\ seen = <<>>
    /\ stack = <<>>
    /\ cache = <<>>
    /\ maps = <<>>
    /\ versions = <<>>
    /\ log = <<>>

\* What a caller does to build a graph.
BuildNode == AddNode

BuildRegion == AddRegion

BuildCompound == AddCompound("Theta")

BuildGamma ==
    /\ Building
    /\ \E a, b \in RegionsIn(Graph) \ OwnedIn(Graph) :
           AddGamma(IF a = b THEN <<a>> ELSE <<a, b>>)

BuildLink ==
    /\ Building
    /\ SumLen(predecessors) < MaxLinks
    /\ \E id \in Live(Graph), t \in Live(Graph) : Connect(id, FromId(t))

Visit ==
    /\ log = <<>>
    /\ \E roots \in RootLists : RunWith(roots)

Next ==
    \/ BuildNode
    \/ BuildRegion
    \/ BuildCompound
    \/ BuildGamma
    \/ BuildLink
    \/ Visit

Spec == Init /\ [][Next]_vars

\* A caller that keeps one visitor: it builds a graph and runs the visitor up to two
\* times, removing or adding one node in between. The roots are any keys,
\* also keys of removed nodes and a key that was never handed out.
AnyRoots ==
    {r \in UNION {[1 .. k -> 0 .. Len(nodes)] : k \in 0 .. ReuseRoots} :
        \A i, j \in 1 .. Len(r) : r[i] = r[j] => i = j}

\* The run before returned: a run that aborted ends the program.
Returned == \A i \in 1 .. Len(log) : ~log[i].panic

RootsRemove ==
    /\ Len(log) = 1
    /\ Returned
    /\ Graph = Last.pre
    /\ \E id \in Live(Graph) : SetGraph(RemoveNodeFrom(Graph, id))
    /\ UNCHANGED <<seen, stack, cache, maps, versions, log>>

RootsInsert ==
    /\ Len(log) = 1
    /\ Returned
    /\ Graph = Last.pre
    /\ Len(nodes) < MaxNodes
    /\ SetGraph(AddNodeTo(Graph, "Simple"))
    /\ UNCHANGED <<seen, stack, cache, maps, versions, log>>

RootsRun ==
    /\ Len(log) <= 1
    /\ Returned
    /\ \E roots \in AnyRoots :
           \E v \in {run_with(seen, stack, Graph, roots)} :
               /\ seen' = v.seen
               /\ stack' = v.stack
               /\ log' = Append(log, Done("run_with", roots, Graph, v.out, v.panic))
    /\ UNCHANGED <<nodes, regions, predecessors, cache, maps, versions>>

RootsBuild ==
    \/ /\ Len(nodes) < ReuseNodes
       /\ (BuildNode \/ BuildRegion \/ BuildCompound)
    \/ /\ SumLen(predecessors) < ReuseLinks
       /\ BuildLink

NextRoots ==
    \/ RootsBuild
    \/ RootsRemove
    \/ RootsInsert
    \/ RootsRun

SpecRoots == Init /\ [][NextRoots]_vars

\* A rule of the caller: it matches the nodes of one kind and yields the kind as its
\* witness (Option<U>, the empty sequence for None).
rule(kind, g, id) == IF g.nodes[id + 1] = kind THEN <<kind>> ELSE <<>>

\* A stitch of the caller: it may add a node to the graph, and returns the node `to`.
stitch(to, grow, g, id, result) ==
    [graph |-> IF grow THEN AddNodeTo(g, "Simple") ELSE g, node |-> to]

\* The operator with the replacement left out: the new node is returned, not stored.
single_unstored(kind, to, grow, g, id) ==
    IF rule(kind, g, id) = <<>>
    THEN [graph |-> g, result |-> <<>>, stitched |-> <<>>]
    ELSE LET made == stitch(to, grow, g, id, rule(kind, g, id)[1])
         IN  [graph |-> made.graph, result |-> <<made.node>>, stitched |-> <<made.node>>]

\* transform::revise::single: rule(graph, id).map(|result| replace(graph.nodes[id],
\* stitch(graph, id, result))). `stitched` holds what stitch returned, if it was called.
single(kind, to, grow, g, id) ==
    IF rule(kind, g, id) = <<>>
    THEN [graph |-> g, result |-> <<>>, stitched |-> <<>>]
    ELSE LET made == stitch(to, grow, g, id, rule(kind, g, id)[1])
         IN  [graph |-> [made.graph EXCEPT !.nodes[id + 1] = made.node],
              result |-> <<made.graph.nodes[id + 1]>>,
              stitched |-> <<made.node>>]

Applied(id, pre, witness, result, stitched) ==
    [op |-> "single", id |-> id, pre |-> pre, witness |-> witness, result |-> result,
     stitched |-> stitched, panic |-> FALSE]

\* The operator applied to a live node of a graph that was built.
Single ==
    /\ Len(log) < SingleCalls
    /\ \E id \in Live(Graph), kind \in {"Simple", "End", "Theta"},
          to \in {"Simple", "Lambda"}, grow \in {Len(nodes) < MaxNodes, FALSE} :
           \E r \in {single(kind, to, grow, Graph, id)} :
               /\ SetGraph(r.graph)
               /\ log' = Append(log, Applied(id, Graph, rule(kind, Graph, id),
                                             r.result, r.stitched))
    /\ UNCHANGED <<seen, stack, cache, maps, versions>>

NextSingle ==
    \/ RootsBuild
    \/ Single

SpecSingle == Init /\ [][NextSingle]_vars

----------------------------------------------------------------------------
(* The depth-first searcher: visit/depth_first_searcher.rs, on a DataFlowGraph whose
   nodes hold their parameter list and compounds their result lists
   (collection/data_flow_graph.rs). `predecessors` holds the parameter lists and
   `regions` the result lists of the compounds, one list per region. *)

Event(tag, n) == [tag |-> tag, n |-> n]

\* A searcher in the middle of a run; `handled` is what the handler was given, in order.
Searcher(active) ==
    [events |-> <<>>, active |-> active, parameter_count |-> <<>>,
     parameter_buffer |-> <<>>, handled |-> <<>>, panic |-> FALSE]

PushEvent(d, e) == [d EXCEPT !.events = Append(@, e)]

\* `links` are the links of one list; the ids are buffered in reverse.
store_parameters(d, links) ==
    [d EXCEPT !.parameter_buffer = @ \o Reverse([i \in 1 .. Len(links) |-> links[i].node]),
              !.parameter_count = Append(@, Len(links))]

\* The loop of queue_regions over regions.iter().enumerate().rev(), at region k - 1.
RECURSIVE queue_region_lists(_, _, _)
queue_region_lists(d, lists, k) ==
    IF k = 0 THEN d
    ELSE queue_region_lists(
             store_parameters(PushEvent(PushEvent(d, Event("PostRegion", k - 1)),
                                        Event("PreRegion", k - 1)),
                              lists[k]),
             lists, k - 1)

queue_regions(d, id, lists) ==
    PushEvent(queue_region_lists(PushEvent(d, Event("PostRegions", id)), lists, Len(lists)),
              Event("PreRegions", id))

queue_parameters(d, g, id) ==
    store_parameters(PushEvent(d, Event("PostParameters", id)), PredsOf(g, id))

\* queue_node with the test of the active set left out.
queue_node_unguarded(d, g, id) ==
    queue_parameters(IF id \in DOMAIN g.regions
                     THEN queue_regions(d, id, g.regions[id]) ELSE d,
                     g, id)

queue_node(d, g, id) ==
    IF id \notin d.active THEN d
    ELSE queue_parameters(
             IF id \in DOMAIN g.regions
             THEN queue_regions([d EXCEPT !.active = @ \ {id}], id, g.regions[id])
             ELSE [d EXCEPT !.active = @ \ {id}],
             g, id)

\* fetch_and_queue: the searcher afterwards, and whether a node was fetched.
fetch_and_queue(d, g, event) ==
    IF event.tag \notin {"PostRegion", "PostParameters"} THEN [d |-> d, fetched |-> FALSE]
    ELSE IF d.parameter_count = <<>> THEN [d |-> Abort(d), fetched |-> FALSE]
    ELSE LET left == d.parameter_count[Len(d.parameter_count)]
             popped == [d EXCEPT !.parameter_count = SubSeq(@, 1, Len(@) - 1)]
         IN  IF left = 0 THEN [d |-> popped, fetched |-> FALSE]
             ELSE IF d.parameter_buffer = <<>> THEN [d |-> Abort(d), fetched |-> FALSE]
             ELSE [d |-> queue_node(
                             [popped EXCEPT
                                 !.parameter_count = Append(@, left - 1),
                                 !.parameter_buffer = SubSeq(@, 1, Len(@) - 1)],
                             g, d.parameter_buffer[Len(d.parameter_buffer)]),
                   fetched |-> TRUE]

\* The loop of DepthFirstSearcher::run.
RECURSIVE search_loop(_, _)
search_loop(d, g) ==
    IF d.panic \/ d.events = <<>> THEN d
    ELSE LET event == d.events[Len(d.events)]
             next == fetch_and_queue(d, g, event)
         IN  IF next.d.panic THEN next.d
             ELSE IF next.fetched THEN search_loop(next.d, g)
             ELSE search_loop([next.d EXCEPT !.handled = Append(@, event),
                                             !.events = SubSeq(@, 1, Len(@) - 1)], g)

\* DepthFirstSearcher::run
search_run(active, g, start) ==
    IF start \notin active THEN Searcher(active)
    ELSE search_loop(queue_node(Searcher(active), g, start), g)

\* The links in all lists of the graph.
RECURSIVE SumAll(_)
SumAll(lists) == IF lists = <<>> THEN 0 ELSE SumLen(Head(lists)) + SumAll(Tail(lists))

SearchLinksIn(g) ==
    SumLen(g.predecessors)
    + SumAll([i \in 1 .. Len(g.nodes) |-> IF (i - 1) \in DOMAIN g.regions
                                           THEN g.regions[i - 1] ELSE <<>>])

\* Lists of links to the nodes there are, with no more links than the bound leaves.
LinkLists ==
    UNION {[1 .. k -> {FromId(id) : id \in 0 .. (Len(nodes) - 1)}] :
               k \in 0 .. (SearchLinks - SearchLinksIn(Graph))}

\* DataFlowGraph::add_simple, the node's data holding `parameters`.
SearchAddSimple ==
    /\ log = <<>>
    /\ Len(nodes) < SearchNodes
    /\ \E parameters \in LinkLists :
           /\ nodes' = Append(nodes, "Simple")
           /\ predecessors' = Append(predecessors, parameters)
    /\ UNCHANGED <<regions, seen, stack, cache, maps, versions, log>>

\* DataFlowGraph::add_gamma and add_theta: one result list per region.
SearchAddCompound ==
    /\ log = <<>>
    /\ Len(nodes) < SearchNodes
    /\ \E parameters \in LinkLists,
          results \in {<<a>> : a \in LinkLists} \cup {<<a, b>> : a, b \in LinkLists} :
           /\ Len(parameters) + SumLen(results) <= SearchLinks - SearchLinksIn(Graph)
           /\ nodes' = Append(nodes, IF Len(results) = 1 THEN "Theta" ELSE "Gamma")
           /\ predecessors' = Append(predecessors, parameters)
           /\ regions' = (Len(nodes) :> results) @@ regions
    /\ UNCHANGED <<seen, stack, cache, maps, versions, log>>

Searched(start, active, handled, panic) ==
    [op |-> "search", start |-> start, active |-> active, handled |-> handled,
     panic |-> panic]

\* One run of a searcher whose active set the caller filled.
SearchRun ==
    /\ log = <<>>
    /\ \E active \in SUBSET (0 .. (Len(nodes) - 1)), start \in 0 .. (Len(nodes) - 1) :
           \E d \in {search_run(active, Graph, start)} :
               /\ seen' = d.active
               /\ stack' = d.events
               /\ log' = <<Searched(start, active, d.handled, d.panic)>>
    /\ UNCHANGED <<nodes, regions, predecessors, cache, maps, versions>>

NextSearch ==
    \/ SearchAddSimple
    \/ SearchAddCompound
    \/ SearchRun

SpecSearch == Init /\ [][NextSearch]_vars

----------------------------------------------------------------------------
(* The visitor's loop, one iteration at a time, on graphs whose links may form cycles *)

LoopBuild ==
    \/ Len(nodes) + 1 <= LoopNodes /\ BuildNode
    \/ Len(nodes) + 2 <= LoopNodes /\ BuildRegion
    \/ Len(nodes) + 3 <= LoopNodes /\ BuildCompound

\* graph.predecessors[id].push(link) with any live node, the node itself included.
LoopLink ==
    /\ Building
    /\ SumLen(predecessors) < LoopLinks
    /\ \E id \in Live(Graph), t \in Live(Graph) : SetGraph(PushLink(Graph, id, FromId(t)))
    /\ UNCHANGED <<seen, stack, cache, maps, versions, log>>

\* run_with up to its loop: set_up_roots.
LoopStart ==
    /\ log = <<>>
    /\ \E roots \in RootListsUpTo(1) :
       \E v \in {set_up_roots(Visitor(seen, stack), Graph, roots)} :
           /\ seen' = v.seen
           /\ stack' = v.stack
           /\ log' = <<Done("run_with", roots, Graph, v.out, v.panic)>>
    /\ UNCHANGED <<nodes, regions, predecessors, cache, maps, versions>>

\* One iteration of while let Some(entry) = self.stack.pop().
LoopStep ==
    /\ log # <<>>
    /\ ~Last.panic
    /\ stack # <<>>
    /\ \E e \in {stack[Len(stack)]} :
       \E popped \in {[Visitor(seen, SubSeq(stack, 1, Len(stack) - 1)) EXCEPT
                           !.out = Last.out]} :
       \E v \in {CASE e.tag = "Predecessors" -> handle_predecessor(popped, Graph, e.count, e.id)
                   [] e.tag = "Regions" -> handle_region(popped, Graph, e.count, e.id)
                   [] OTHER -> [popped EXCEPT !.out = Append(@, e.id)]} :
           /\ seen' = v.seen
           /\ stack' = v.stack
           /\ log' = <<[Last EXCEPT !.out = v.out, !.panic = v.panic]>>
    /\ UNCHANGED <<nodes, regions, predecessors, cache, maps, versions>>

NextLoop ==
    \/ LoopBuild
    \/ LoopLink
    \/ LoopStart
    \/ LoopStep

SpecLoop == Init /\ [][NextLoop]_vars

\* The loop runs on until the stack is empty: nothing else takes the thread.
FairLoop == SpecLoop /\ WF_vars(LoopStep)

----------------------------------------------------------------------------
(* The hash-map successor cache: pass/successors.rs over pass/traverse/post_order.rs,
   and the rewriting of ports that reads it: pass/restitch.rs. `seen` holds
   PostOrder.seen (a set), `stack` PostOrder.queue and `cache` the HashMap. *)

PostOrder(sn, queue) == [seen |-> sn, queue |-> queue, out |-> <<>>, panic |-> FALSE]

add_guarded(w, id) ==
    IF id \in w.seen THEN w
    ELSE [w EXCEPT !.seen = @ \cup {id}, !.queue = Append(@, id)]

RECURSIVE add_guarded_all(_, _)
add_guarded_all(w, ids) ==
    IF ids = <<>> THEN w ELSE add_guarded_all(add_guarded(w, Head(ids)), Tail(ids))

\* The markers of a region list in the order add_neighbors takes them: start, then end.
RECURSIVE StartsAndEnds(_)
StartsAndEnds(list) ==
    IF list = <<>> THEN <<>>
    ELSE <<Head(list).start, Head(list).end>> \o StartsAndEnds(Tail(list))

\* add_neighbors; graph.nodes[id] and graph.regions[id] abort on a key that is not there.
add_neighbors(w, g, id) ==
    IF ~IsLive(g, id) \/ (IsCompound(g, id) /\ id \notin DOMAIN g.regions) THEN Abort(w)
    ELSE add_guarded_all(
             IF IsCompound(g, id) THEN add_guarded_all(w, StartsAndEnds(g.regions[id])) ELSE w,
             [i \in 1 .. Len(PredsOf(g, id)) |-> PredsOf(g, id)[i].node])

\* while let Some(id) = self.queue.pop() { operation(id); self.add_neighbors(graph, id) }
RECURSIVE post_order_loop(_, _)
post_order_loop(w, g) ==
    IF w.panic \/ w.queue = <<>> THEN w
    ELSE LET id == w.queue[Len(w.queue)]
         IN  IF id >= Len(g.predecessors)
             THEN Abort(w)
             ELSE post_order_loop(
                      add_neighbors([w EXCEPT !.queue = SubSeq(@, 1, Len(@) - 1),
                                              !.out = Append(@, id)], g, id), g)

\* PostOrder::run_with, with the operation of Successors::run: graph.predecessors[id]
\* aborts out of bounds before the neighbours are added.
post_order_run(sn, queue, g, roots) ==
    post_order_loop(add_guarded_all(PostOrder({}, queue), roots), g)

\* The entry of `v` in the map, empty if there is none: entry(v).or_default().
EntryOf(c, v) == IF v \in DOMAIN c THEN c[v] ELSE <<>>

\* for v in &graph.predecessors[id]: push id to the entry of v.node() unless it is there.
RECURSIVE cache_links(_, _, _)
cache_links(c, id, links) ==
    IF links = <<>> THEN c
    ELSE cache_links(
             (Head(links).node :>
                 (IF id \in Range(EntryOf(c, Head(links).node))
                  THEN EntryOf(c, Head(links).node)
                  ELSE Append(EntryOf(c, Head(links).node), id))) @@ c,
             id, Tail(links))

RECURSIVE cache_all(_, _, _)
cache_all(c, g, ids) ==
    IF ids = <<>> THEN c
    ELSE cache_all(cache_links(c, Head(ids), PredsOf(g, Head(ids))), g, Tail(ids))

\* pass::Successors::run: the map is the one of the run before, added to.
pass_successors_run(c, w, g) == cache_all(c, g, w.out)

\* pass::restitch::redo_ports: cache()[&from] aborts when the map has no entry.
restitch_redo_ports(preds, c, from, to, redo) ==
    LET st == [predecessors |-> preds, applied |-> 0, panic |-> FALSE]
    IN  IF from \notin DOMAIN c THEN [st EXCEPT !.panic = TRUE]
        ELSE redo_over(st, from,
                       [p \in Ports |-> IF redo[p] = None THEN None
                                        ELSE Some(Link(to, redo[p][1]))],
                       c[from])

\* A caller that keeps one Successors: it builds a graph, runs the index, adds a node or
\* moves the users of one node to another, and runs the index again.
PassIndex ==
    /\ Cardinality({i \in 1 .. Len(log) : log[i].op = "index"}) < PassRuns
    /\ Returned
    /\ \E roots \in RootListsUpTo(1) :
       \E w \in {post_order_run(seen, stack, Graph, roots)} :
           /\ seen' = w.seen
           /\ stack' = w.queue
           /\ cache' = IF w.panic THEN cache ELSE pass_successors_run(cache, w, Graph)
           /\ log' = Append(log, Done("index", roots, Graph, w.out, w.panic))
    /\ UNCHANGED <<nodes, regions, predecessors, maps, versions>>

PassInsert ==
    /\ Len(log) = 1
    /\ Returned
    /\ Len(nodes) < MaxNodes
    /\ Graph = Last.pre
    /\ SetGraph(AddNodeTo(Graph, "Simple"))
    /\ UNCHANGED <<seen, stack, cache, maps, versions, log>>

\* redo_ports with any function of ports; redo_ports_in_place is the one with Some.
PassRedo ==
    /\ log # <<>>
    /\ Last.op = "index"
    /\ Returned
    /\ \E from \in Live(Graph), to \in Live(Graph), redo \in [Ports -> {None, Some(0)}] :
       \E r \in {restitch_redo_ports(predecessors, cache, from, to, redo)} :
           /\ predecessors' = r.predecessors
           /\ log' = Append(log, [Moved(from, to, Graph, r.applied, r.panic)
                                     EXCEPT !.op = "redo_ports"])
    /\ UNCHANGED <<nodes, regions, seen, stack, cache, maps, versions>>

NextPass ==
    \/ RootsBuild
    \/ PassIndex
    \/ PassInsert
    \/ PassRedo

SpecPass == Init /\ [][NextPass]_vars

----------------------------------------------------------------------------
(* The traversals of the passes that keep (id, bool) entries in their queue:
   pass/traverse/reverse_topological.rs, whose `seen` is a Vec<bool> of
   graph.active() flags, and pass/traverse/pre_order_mut.rs, whose `seen` is a
   HashSet. `size` is the length of the Vec, -1 for the HashSet. *)

Traversal(size) == [seen |-> {}, size |-> size, queue |-> <<>>, out |-> <<>>, panic |-> FALSE]

\* add_guarded: self.seen[id] aborts out of bounds on the Vec.
add_guarded_entry(w, id) ==
    IF w.panic THEN w
    ELSE IF w.size >= 0 /\ id >= w.size THEN Abort(w)
    ELSE IF id \in w.seen THEN w
    ELSE [w EXCEPT !.seen = @ \cup {id}, !.queue = Append(@, <<id, FALSE>>)]

RECURSIVE add_guarded_entries(_, _)
add_guarded_entries(w, ids) ==
    IF ids = <<>> THEN w
    ELSE add_guarded_entries(add_guarded_entry(w, Head(ids)), Tail(ids))

\* add_neighbors: the markers of the regions of a compound, then the predecessors.
add_neighbors_entries(w, g, id) ==
    IF ~IsLive(g, id) \/ (IsCompound(g, id) /\ id \notin DOMAIN g.regions) THEN Abort(w)
    ELSE add_guarded_entries(
             IF IsCompound(g, id)
             THEN add_guarded_entries(w, StartsAndEnds(g.regions[id]))
             ELSE w,
             [i \in 1 .. Len(PredsOf(g, id)) |-> PredsOf(g, id)[i].node])

\* while let Some(entry) = self.queue.last_mut(): an entry whose flag is set is given
\* to the operation and popped; another has its flag set and its neighbours added.
RECURSIVE traverse_loop(_, _)
traverse_loop(w, g) ==
    IF w.panic \/ w.queue = <<>> THEN w
    ELSE LET id == w.queue[Len(w.queue)][1]
         IN  IF w.queue[Len(w.queue)][2]
             THEN traverse_loop([w EXCEPT !.queue = SubSeq(@, 1, Len(@) - 1),
                                          !.out = Append(@, id)], g)
             ELSE traverse_loop(
                      add_neighbors_entries([w EXCEPT !.queue[Len(w.queue)] = <<id, TRUE>>],
                                            g, id), g)

\* ReverseTopological::run_with: set_up_roots sizes `seen` to graph.active().
traverse_run_with(g, roots) ==
    traverse_loop(add_guarded_entries(Traversal(Active(g)), roots), g)

\* PreOrderMut::run_with, with an operation that leaves the graph as it is.
pre_order_mut_run_with(g, roots) ==
    traverse_loop(add_guarded_entries(Traversal(-1), roots), g)

OrderBuild ==
    \/ Len(nodes) + 1 <= OrderNodes /\ BuildNode
    \/ Len(nodes) + 2 <= OrderNodes /\ BuildRegion
    \/ Len(nodes) + 3 <= OrderNodes /\ BuildCompound

\* graph.predecessors[id].push(link), for the links that close no cycle.
OrderLink ==
    /\ Building
    /\ SumLen(predecessors) < OrderLinks
    /\ \E id \in Live(Graph), t \in Live(Graph) :
           /\ id \notin Closure(Graph, {t})
           /\ SetGraph(PushLink(Graph, id, FromId(t)))
    /\ UNCHANGED <<seen, stack, cache, maps, versions, log>>

OrderRun ==
    /\ log = <<>>
    /\ \E roots \in RootListsUpTo(1) :
       \E w \in {traverse_run_with(Graph, roots)} :
           /\ seen' = w.seen
           /\ stack' = w.queue
           /\ log' = <<Done("traverse", roots, Graph, w.out, w.panic)>>
    /\ UNCHANGED <<nodes, regions, predecessors, cache, maps, versions>>

OrderRunMut ==
    /\ log = <<>>
    /\ \E roots \in RootListsUpTo(1) :
       \E w \in {pre_order_mut_run_with(Graph, roots)} :
           /\ seen' = w.seen
           /\ stack' = w.queue
           /\ log' = <<Done("pre_order_mut", roots, Graph, w.out, w.panic)>>
    /\ UNCHANGED <<nodes, regions, predecessors, cache, maps, versions>>

NextOrder ==
    \/ OrderBuild
    \/ OrderLink
    \/ OrderRun
    \/ OrderRunMut

SpecOrder == Init /\ [][NextOrder]_vars

SweepFirst ==
    /\ log = <<>>
    /\ \E roots \in PassRoots : Sweep(roots)

SweepAgain ==
    /\ log # <<>>
    /\ Sweep(Last.roots)

NextSweep ==
    \/ BuildNode
    \/ BuildRegion
    \/ BuildCompound
    \/ BuildGamma
    \/ BuildLink
    \/ SweepFirst
    \/ SweepAgain

SpecSweep == Init /\ [][NextSweep]_vars

IndexFirst ==
    /\ log = <<>>
    /\ \E roots \in PassRoots : SuccessorsRun(roots)

IndexAgain ==
    /\ log # <<>> /\ Last.roots # <<>>
    /\ SuccessorsRun(Tail(Last.roots))

NextIndex ==
    \/ BuildNode
    \/ BuildRegion
    \/ BuildCompound
    \/ BuildGamma
    \/ BuildLink
    \/ IndexFirst
    \/ IndexAgain

SpecIndex == Init /\ [][NextIndex]_vars

\* A caller that builds simple nodes and links them at any port, builds the index from
\* one root, and rewrites the ports of a node, then once more with the index as it is.
PortedNode ==
    /\ Len(nodes) < RedoNodes
    /\ AddNode

PortedLink ==
    /\ Building
    /\ SumLen(predecessors) < RedoLinks
    /\ \E id \in Live(Graph), t \in Live(Graph), p \in Ports : Connect(id, Link(t, p))

RedoIndex ==
    /\ log = <<>>
    /\ \E r \in Live(Graph) : SuccessorsRun(<<r>>)

\* The functions a caller rewrites with: for each port no link, or a link to `to`.
Redos == UNION {[Ports -> {None} \cup {Some(Link(to, q)) : q \in Ports}] : to \in Live(Graph)}

RedoFirst ==
    /\ Len(log) = 1
    /\ \E id \in Live(Graph), redo \in Redos : RedoPorts(id, redo)

RedoAgain ==
    /\ Len(log) = 2
    /\ Last.op = "redo_ports"
    /\ RedoPorts(Last.id, Last.redo)

NextRedo ==
    \/ PortedNode
    \/ PortedLink
    \/ RedoIndex
    \/ RedoFirst
    \/ RedoAgain

SpecRedo == Init /\ [][NextRedo]_vars

\* A caller that builds simple nodes and a compound, links them at any port, builds the
\* index from one root, moves the users of one node to another, and rebuilds the index
\* from the same root.
InPlaceNode ==
    /\ Len(nodes) < InPlaceNodes
    /\ AddNode

InPlaceCompound ==
    /\ Len(nodes) + 3 <= InPlaceNodes
    /\ AddCompound("Theta")

InPlaceLink ==
    /\ Building
    /\ SumLen(predecessors) < InPlaceLinks
    /\ \E id \in Live(Graph), t \in Live(Graph), p \in Ports : Connect(id, Link(t, p))

InPlaceIndex ==
    /\ log = <<>>
    /\ \E r \in Live(Graph) : SuccessorsRun(<<r>>)

InPlaceMove ==
    /\ Len(log) = 1
    /\ \E from \in Live(Graph), to \in Live(Graph) : RedoPortsInPlace(from, to)

InPlaceReindex ==
    /\ Len(log) = 2
    /\ Last.op = "redo_ports_in_place"
    /\ SuccessorsRun(log[1].roots)

NextInPlace ==
    \/ InPlaceNode
    \/ InPlaceCompound
    \/ InPlaceLink
    \/ InPlaceIndex
    \/ InPlaceMove
    \/ InPlaceReindex

SpecInPlace == Init /\ [][NextInPlace]_vars

\* A caller that builds a compound with its regions and a user of its outputs, builds
\* the index from the user, relaxes a node, sweeps from the user, rebuilds the index and
\* relaxes the node once more.
RelaxIndex ==
    /\ log = <<>>
    /\ HasUser
    /\ SuccessorsRun(<<Len(nodes) - 1>>)

RelaxFirst ==
    /\ Len(log) = 1
    /\ \E id \in Live(Graph) : Relax(id)

RelaxSweep ==
    /\ Len(log) = 2
    /\ Last.op = "relax" /\ Last.result # None
    /\ Sweep(log[1].roots)

RelaxReindex ==
    /\ Len(log) = 3
    /\ Last.op = "sweep"
    /\ SuccessorsRun(log[1].roots)

RelaxAgain ==
    /\ Len(log) = 4
    /\ Relax(log[2].id)

NextRelax ==
    \/ RelaxSimple
    \/ RelaxRegion
    \/ RelaxGamma
    \/ RelaxTheta
    \/ RelaxUser
    \/ RelaxIndex
    \/ RelaxFirst
    \/ RelaxSweep
    \/ RelaxReindex
    \/ RelaxAgain

SpecRelax == Init /\ [][NextRelax]_vars

\* A caller that uses every public operation of the store freely: a region it was given
\* may be handed to add_gamma any number of times, and a key may be used after its node
\* was removed. The log holds the last call: its argument, the graph before it and what
\* it returned.
Stored(op, arg, pre, result) == [op |-> op, arg |-> arg, pre |-> pre, result |-> result]

StoreAddNode ==
    /\ Len(nodes) + 1 <= StoreNodes
    /\ SetGraph(AddNodeTo(Graph, "Simple"))
    /\ log' = <<Stored("add_node", "Simple", Graph, <<Len(nodes)>>)>>
    /\ UNCHANGED <<seen, stack, cache, maps, versions>>

StoreAddRegion ==
    /\ Len(nodes) + 2 <= StoreNodes
    /\ SetGraph(AddRegionTo(Graph))
    /\ log' = <<Stored("add_region", <<>>, Graph, <<Region(Len(nodes), Len(nodes) + 1)>>)>>
    /\ UNCHANGED <<seen, stack, cache, maps, versions>>

StoreAddCompound ==
    /\ Len(nodes) + 3 <= StoreNodes
    /\ SetGraph(AddCompoundTo(Graph, "Theta"))
    /\ log' = <<Stored("add_compound", "Theta", Graph, <<Len(nodes)>>)>>
    /\ UNCHANGED <<seen, stack, cache, maps, versions>>

StoreAddGamma ==
    /\ Len(nodes) + 1 <= StoreNodes
    /\ \E n \in 1 .. StoreRegions : \E list \in [1 .. n -> RegionsIn(Graph)] :
           /\ SetGraph(AddGammaTo(Graph, list))
           /\ log' = <<Stored("add_gamma", list, Graph, <<Len(nodes)>>)>>
    /\ UNCHANGED <<seen, stack, cache, maps, versions>>

\* graph.predecessors[id].push(Link::from(producer))
StoreLink ==
    /\ SumLen(predecessors) < StoreLinks
    /\ \E id \in Live(Graph), producer \in Live(Graph) :
           /\ SetGraph(PushLink(Graph, id, FromId(producer)))
           /\ log' = <<Stored("push", <<id, producer>>, Graph, <<>>)>>
    /\ UNCHANGED <<seen, stack, cache, maps, versions>>

StoreRemoveNode ==
    /\ \E id \in 0 .. (Len(nodes) - 1) :
           /\ SetGraph(RemoveNodeFrom(Graph, id))
           /\ log' = <<Stored("remove_node", id, Graph, removed(Graph, id))>>
    /\ UNCHANGED <<seen, stack, cache, maps, versions>>

\* remove_region of a region whose markers are live (nodes.remove of a key that is not
\* live is outside these sources).
StoreRemoveRegion ==
    /\ \E region \in RegionsIn(Graph) :
           /\ IsLive(Graph, region.end)
           /\ SetGraph(RemoveRegionFrom(Graph, region))
           /\ log' = <<Stored("remove_region", region, Graph, <<>>)>>
    /\ UNCHANGED <<seen, stack, cache, maps, versions>>

\* remove_compound of any key; where the key has a region list, its regions are live
\* and each is listed once, so that nodes.remove is given live keys only.
StoreRemoveCompound ==
    /\ \E id \in 0 .. (Len(nodes) - 1) :
           /\ \A i \in 1 .. Len(RegionsOf(Graph, id)) :
                  /\ IsLive(Graph, regions[id][i].start)
                  /\ IsLive(Graph, regions[id][i].end)
                  /\ \A j \in 1 .. Len(regions[id]) : regions[id][i] = regions[id][j] => i = j
           /\ SetGraph(RemoveCompoundFrom(Graph, id))
           /\ log' = <<Stored("remove_compound", id, Graph,
                              IF id \in DOMAIN regions /\ IsLive(Graph, id)
                                 /\ IsCompound(Graph, id)
                              THEN removed(Graph, id) ELSE <<>>)>>
    /\ UNCHANGED <<seen, stack, cache, maps, versions>>

NextStore ==
    \/ StoreAddNode
    \/ StoreAddRegion
    \/ StoreAddCompound
    \/ StoreAddGamma
    \/ StoreLink
    \/ StoreRemoveNode
    \/ StoreRemoveRegion
    \/ StoreRemoveCompound

SpecStore == Init /\ [][NextStore]_vars

\* A caller that builds a graph as the data model asks and then removes nodes, regions
\* and compounds, by keys that are live or not.
NextRemove ==
    \/ BuildNode
    \/ BuildRegion
    \/ BuildCompound
    \/ BuildGamma
    \/ BuildLink
    \/ StoreRemoveNode
    \/ StoreRemoveRegion
    \/ StoreRemoveCompound

SpecRemove == Init /\ [][NextRemove]_vars

\* The slots the arena may put the next node in: a vacant one or a new last one.
Slots(g) == {i \in 0 .. Len(g.nodes) : i = Len(g.nodes) \/ g.nodes[i + 1] = "Vacant"}

\* Graph::add_region, add_compound and add_gamma with the slots the arena chose.
AddRegionIn(g, s1, s2) == InsertAt(InsertAt(g, "Start", s1), "End", s2)

AddCompoundIn(g, kind, s0, s1, s2) ==
    InsertRegions(AddRegionIn(InsertAt(g, kind, s0), s1, s2), s0, <<Region(s1, s2)>>)

AddGammaIn(g, list, s0) == InsertRegions(InsertAt(g, "Gamma", s0), s0, list)

\* The pairs of live markers, as a caller may hold them.
Markers(g) ==
    {Region(a, b) : a \in {i \in Live(g) : g.nodes[i + 1] = "Start"},
                    b \in {i \in Live(g) : g.nodes[i + 1] = "End"}}

\* A caller that adds, removes and clears in any order, the arena filling any vacant
\* slot or a new one. The log holds the last call, with the graph before it where the
\* call is add_node.
SlotsAddNode ==
    /\ \E s0 \in Slots(Graph) :
           /\ s0 < SlotNodes
           /\ SetGraph(InsertAt(Graph, "Simple", s0))
           /\ log' = <<Stored("add_node", "Simple", Graph, <<s0>>)>>
    /\ UNCHANGED <<seen, stack, cache, maps, versions>>

SlotsAddRegion ==
    /\ \E s1 \in Slots(Graph) : \E s2 \in Slots(InsertAt(Graph, "Start", s1)) :
           /\ s1 < SlotNodes /\ s2 < SlotNodes
           /\ SetGraph(AddRegionIn(Graph, s1, s2))
           /\ log' = <<Stored("add_region", <<>>, <<>>, <<Region(s1, s2)>>)>>
    /\ UNCHANGED <<seen, stack, cache, maps, versions>>

SlotsAddCompound ==
    /\ \E s0 \in Slots(Graph) :
       \E s1 \in Slots(InsertAt(Graph, "Theta", s0)) :
       \E s2 \in Slots(InsertAt(InsertAt(Graph, "Theta", s0), "Start", s1)) :
           /\ s0 < SlotNodes /\ s1 < SlotNodes /\ s2 < SlotNodes
           /\ SetGraph(AddCompoundIn(Graph, "Theta", s0, s1, s2))
           /\ log' = <<Stored("add_compound", "Theta", <<>>, <<s0>>)>>
    /\ UNCHANGED <<seen, stack, cache, maps, versions>>

SlotsAddGamma ==
    /\ \E s0 \in Slots(Graph), list \in {<<>>} \cup {<<r>> : r \in Markers(Graph)} :
           /\ s0 < SlotNodes
           /\ SetGraph(AddGammaIn(Graph, list, s0))
           /\ log' = <<Stored("add_gamma", list, <<>>, <<s0>>)>>
    /\ UNCHANGED <<seen, stack, cache, maps, versions>>

SlotsClear ==
    /\ nodes # <<>>
    /\ SetGraph(ClearOf(Graph))
    /\ log' = <<Stored("clear", <<>>, <<>>, <<>>)>>
    /\ UNCHANGED <<seen, stack, cache, maps, versions>>

\* graph.predecessors[id].push(Link::from(producer))
SlotsLink ==
    /\ SumLen(predecessors) < SlotLinks
    /\ \E id \in Live(Graph), producer \in Live(Graph) :
           /\ SetGraph(PushLink(Graph, id, FromId(producer)))
           /\ log' = <<Stored("push", <<id, producer>>, <<>>, <<>>)>>
    /\ UNCHANGED <<seen, stack, cache, maps, versions>>

SlotsRemoveNode ==
    /\ \E id \in 0 .. (Len(nodes) - 1) :
           /\ SetGraph(RemoveNodeFrom(Graph, id))
           /\ log' = <<Stored("remove_node", id, <<>>, <<>>)>>
    /\ UNCHANGED <<seen, stack, cache, maps, versions>>

\* remove_compound of any key; where the key has a region list, the markers of its
\* regions are live, so that nodes.remove is given live keys only.
SlotsRemoveCompound ==
    /\ \E id \in 0 .. (Len(nodes) - 1) :
           /\ \A i \in 1 .. Len(RegionsOf(Graph, id)) :
                  /\ IsLive(Graph, regions[id][i].start)
                  /\ IsLive(Graph, regions[id][i].end)
           /\ SetGraph(RemoveCompoundFrom(Graph, id))
           /\ log' = <<Stored("remove_compound", id, <<>>, <<>>)>>
    /\ UNCHANGED <<seen, stack, cache, maps, versions>>

NextSlots ==
    \/ SlotsAddNode
    \/ SlotsAddRegion
    \/ SlotsAddCompound
    \/ SlotsAddGamma
    \/ SlotsClear
    \/ SlotsLink
    \/ SlotsRemoveNode
    \/ SlotsRemoveCompound

SpecSlots == Init /\ [][NextSlots]_vars

\* A caller that inserts nodes, removes them by the keys it was given, live or not, and
\* clears the graph. The log holds every call with the key it returned or was given.
Keyed(op, key, pre, result) == [op |-> op, key |-> key, pre |-> pre, result |-> result]

\* The keys handed out so far.
Issued == {log[i].key : i \in {i \in 1 .. Len(log) : log[i].op = "insert"}}

KeysInsert ==
    /\ Len(log) < KeysCalls
    /\ \E slot \in {i \in 0 .. Len(nodes) : i = Len(nodes) \/ nodes[i + 1] = "Vacant"} :
           /\ SetGraph(InsertAt(Graph, "Simple", slot))
           /\ versions' = IF slot < Len(versions)
                          THEN [versions EXCEPT ![slot + 1] = NextVersion(versions, slot)]
                          ELSE Append(versions, NextVersion(versions, slot))
           /\ log' = Append(log, Keyed("insert", Key(slot, NextVersion(versions, slot)),
                                       Graph, <<>>))
    /\ UNCHANGED <<seen, stack, cache, maps>>

KeysRemove ==
    /\ Len(log) < KeysCalls
    /\ \E key \in Issued :
           /\ SetGraph(IF resolves(Graph, versions, key)
                       THEN RemoveNodeFrom(Graph, key.index) ELSE Graph)
           /\ log' = Append(log, Keyed("remove", key, Graph,
                                       IF resolves(Graph, versions, key)
                                       THEN removed(Graph, key.index) ELSE <<>>))
    /\ UNCHANGED <<seen, stack, cache, maps, versions>>

\* Graph::clear; whether the arena keeps the generations of its slots is not known.
KeysClear ==
    /\ Len(log) < KeysCalls
    /\ nodes # <<>>
    /\ SetGraph(ClearOf(Graph))
    /\ versions' \in {versions, <<>>}
    /\ log' = Append(log, Keyed("clear", <<>>, Graph, <<>>))
    /\ UNCHANGED <<seen, stack, cache, maps>>

NextKeys ==
    \/ KeysInsert
    \/ KeysRemove
    \/ KeysClear

SpecKeys == Init /\ [][NextKeys]_vars

----------------------------------------------------------------------------
(* Properties of the visitor *)

\* The runs of the visitor that returned.
Runs == {k \in 1 .. Len(log) : log[k].op = "run_with" /\ ~log[k].panic}

\* The position of `id` in the sequence `out`, 0 when it is absent.
Pos(out, id) ==
    IF \E i \in 1 .. Len(out) : out[i] = id
    THEN CHOOSE i \in 1 .. Len(out) : out[i] = id
    ELSE 0

Before(out, a, b) == Pos(out, a) > 0 /\ Pos(out, b) > 0 /\ Pos(out, a) < Pos(out, b)

Producers(g, id) == {PredsOf(g, id)[i].node : i \in 1 .. Len(PredsOf(g, id))}

\* C1: run_with applies the function to a node only after it has applied it to the
\* producer of every link in the node's predecessor list, for every root list.
C1_ProducersFirst ==
    \A k \in Runs :
        \A i \in 1 .. Len(log[k].out) :
            \A p \in Producers(log[k].pre, log[k].out[i]) :
                \E h \in 1 .. (i - 1) : log[k].out[h] = p

\* The same with at most one root: the order holds when no root is the producer of another.
C1_SingleRoot ==
    \A k \in Runs :
        Len(log[k].roots) <= 1 =>
            \A i \in 1 .. Len(log[k].out) :
                \A p \in Producers(log[k].pre, log[k].out[i]) :
                    \E h \in 1 .. (i - 1) : log[k].out[h] = p

\* The nodes of region `r`'s body: what the end marker's predecessors reach, the start
\* marker aside.
Body(g, r) == Closure(g, Producers(g, r.end)) \ {r.start}

RegionInOrder(g, out, c, r) ==
    /\ Pos(out, r.start) > 0
    /\ \A b \in Body(g, r) : Before(out, r.start, b) /\ Before(out, b, r.end)
    /\ Before(out, r.start, r.end)
    /\ Before(out, r.end, c)

\* C2: for every compound the visitor reaches and every region it owns, the start marker
\* comes before every body node, the body before the end marker and the end marker
\* before the compound, for every root list.
C2_RegionsNested ==
    \A k \in Runs :
        \A c \in Range(log[k].out) :
            \A i \in 1 .. Len(RegionsOf(log[k].pre, c)) :
                RegionInOrder(log[k].pre, log[k].out, c, RegionsOf(log[k].pre, c)[i])

C2_SingleRoot ==
    \A k \in Runs :
        Len(log[k].roots) <= 1 =>
            \A c \in Range(log[k].out) :
                \A i \in 1 .. Len(RegionsOf(log[k].pre, c)) :
                    RegionInOrder(log[k].pre, log[k].out, c, RegionsOf(log[k].pre, c)[i])

\* The reference post-order: roots in the order given; for a node not yet seen, the
\* producers of its links in list order, then each region in declaration order (start,
\* then end), then the node.
RECURSIVE RefNode(_, _, _), RefList(_, _, _)
RefNode(g, st, id) ==
    IF id \in st.seen THEN st
    ELSE LET preds == PredsOf(g, id)
             regs == RegionsOf(g, id)
             wanted == [i \in 1 .. Len(preds) |-> preds[i].node]
                       \o [i \in 1 .. (2 * Len(regs)) |->
                              IF i % 2 = 1 THEN regs[(i + 1) \div 2].start
                                           ELSE regs[i \div 2].end]
             after == RefList(g, [st EXCEPT !.seen = @ \cup {id}], wanted)
         IN  [after EXCEPT !.out = Append(@, id)]

RefList(g, st, list) ==
    IF list = <<>> THEN st
    ELSE RefList(g, RefNode(g, st, Head(list)), Tail(list))

RefOrder(g, roots) == RefList(g, [seen |-> {}, out |-> <<>>], roots).out

\* C3: the sequence run_with emits equals the reference post-order.
C3_EqualsReference ==
    \A k \in Runs : log[k].out = RefOrder(log[k].pre, log[k].roots)

C3_SingleRoot ==
    \A k \in Runs :
        Len(log[k].roots) <= 1 => log[k].out = RefOrder(log[k].pre, log[k].roots)

\* C4: the ids run_with emits are exactly the nodes reachable from the roots through
\* predecessor links and region ownership, each emitted once.
C4_EmitsReachableOnce ==
    \A k \in Runs :
        /\ Range(log[k].out) = Reachable(log[k].pre, log[k].roots)
        /\ \A i, j \in 1 .. Len(log[k].out) : log[k].out[i] = log[k].out[j] => i = j

\* A run that reached a compound with its markers from a root list that names a node
\* twice, or names a node another root reaches.
C4_Witness ==
    \E k \in Runs :
        /\ \E c \in Range(log[k].out) : RegionsOf(log[k].pre, c) # <<>>
        /\ Len(log[k].roots) = 2
        /\ log[k].roots[2] \in Closure(log[k].pre, {log[k].roots[1]})
        /\ Len(log[k].out) >= 3

----------------------------------------------------------------------------
(* Properties of the sweep *)

Swept == log # <<>> /\ Last.op = "sweep" /\ ~Last.panic

\* C5: after the sweep the live nodes are exactly the nodes that were live before and
\* reachable from the roots.
C5_SweepKeepsReachable ==
    Swept => Live(Graph) = Live(Last.pre) \cap Reachable(Last.pre, Last.roots)

\* A sweep that removed a node and kept a compound together with its markers.
C5_Witness ==
    /\ Swept
    /\ Live(Graph) # Live(Last.pre)
    /\ \E c \in Live(Graph) : RegionsOf(Graph, c) # <<>>

\* C6: after the sweep the region map has an entry for an id exactly when it had one
\* before and the visitor reached the id, and the entries kept are unchanged.
C6_SweepRegionMap ==
    Swept =>
        /\ DOMAIN regions =
               {c \in DOMAIN Last.pre.regions : c \in Reachable(Last.pre, Last.roots)}
        /\ \A c \in DOMAIN regions : regions[c] = Last.pre.regions[c]

\* A sweep that dropped the entry of a compound the roots do not reach.
C6_Witness ==
    /\ Swept
    /\ DOMAIN Last.pre.regions # {}
    /\ DOMAIN regions = {}
    /\ Live(Graph) # {}

\* C7: a second sweep from the same roots returns and removes nothing: the nodes and
\* the region map after two sweeps are those after one.
C7_SweepIdempotent ==
    (Len(log) = 2 /\ log[1].op = "sweep" /\ log[2].op = "sweep"
        /\ log[1].roots = log[2].roots /\ ~log[1].panic) =>
        /\ ~log[2].panic
        /\ nodes = log[2].pre.nodes
        /\ regions = log[2].pre.regions

\* Two sweeps, the first of which removed a node and kept a compound.
C7_Witness ==
    /\ Len(log) = 2 /\ log[1].op = "sweep" /\ log[2].op = "sweep"
    /\ Live(log[2].pre) # Live(log[1].pre)
    /\ DOMAIN regions # {}

----------------------------------------------------------------------------
(* Properties of the successor index *)

Indexed == log # <<>> /\ Last.op = "successors" /\ ~Last.panic

\* The nodes among `reached` that hold a link whose producer is `n`.
UsersIn(g, reached, n) == {s \in reached : n \in Producers(g, s)}

Users(g, roots, n) == UsersIn(g, Reachable(g, roots), n)

\* C8: after Successors::run the list cached for a node holds exactly the nodes
\* reachable from the roots that have a link to it, each once, and nothing of an
\* earlier run.
C8_IndexExact ==
    Indexed =>
        /\ Len(cache) >= Active(Graph)
        /\ \E reached \in {Reachable(Last.pre, Last.roots)} :
           \A n \in 0 .. (Len(cache) - 1) :
               /\ Range(cache[n + 1]) = UsersIn(Last.pre, reached, n)
               /\ \A i, j \in 1 .. Len(cache[n + 1]) :
                      cache[n + 1][i] = cache[n + 1][j] => i = j

\* A second run on the same instance, after a run that had entered a successor this
\* run does not reach.
C8_Witness ==
    /\ Indexed
    /\ Len(log) = 2
    /\ \E n \in 0 .. (Len(cache) - 1) :
           /\ Users(log[1].pre, log[1].roots, n) # {}
           /\ cache[n + 1] = <<>>
    /\ \E n \in 0 .. (Len(cache) - 1) : cache[n + 1] # <<>>

----------------------------------------------------------------------------
(* Properties of the port rewriting *)

Rewritten == log # <<>> /\ Last.op = "redo_ports" /\ ~Last.panic

\* The nodes the index lists as successors of `id`.
Listed(id) == Range(cache[id + 1])

\* The link positions <<s, i>> the call had to replace: position `i` of a listed
\* successor `s` held a link produced by `id` at a port for which `redo` gives a link.
Hit(g, id, redo) ==
    UNION {{<<s, i>> : i \in {i \in 1 .. Len(PredsOf(g, s)) :
                                /\ PredsOf(g, s)[i].node = id
                                /\ redo[PredsOf(g, s)[i].port] # None}} :
              s \in Listed(id)}

\* C9: redo_ports replaces every link (id, p) held by a node the index lists as a
\* successor of id with f(p) whenever f(p) is present, and returns the number of link
\* positions it replaced, a position counting also when f(p) equals the old link.
C9_ReplacesAndCounts ==
    Rewritten =>
        \E hit \in {Hit(Last.pre, Last.id, Last.redo)} :
            /\ \A h \in hit :
                   PredsOf(Graph, h[1])[h[2]] =
                       Last.redo[PredsOf(Last.pre, h[1])[h[2]].port][1]
            /\ Last.applied = Cardinality(hit)

\* One call replaced a link by a different one and a link by an equal one, and
\* counted both.
C9_Witness ==
    /\ Rewritten
    /\ Last.applied = 2
    /\ \E h \in Hit(Last.pre, Last.id, Last.redo) :
           PredsOf(Graph, h[1])[h[2]] # PredsOf(Last.pre, h[1])[h[2]]
    /\ \E h \in Hit(Last.pre, Last.id, Last.redo) :
           PredsOf(Graph, h[1])[h[2]] = PredsOf(Last.pre, h[1])[h[2]]

\* C10: redo_ports changes nothing else: the live nodes, the length of every
\* predecessor list, every link whose producer is not id, every link (id, p) with f(p)
\* absent and every list of a node not listed as a successor of id stay as they were,
\* also when the index is stale and lists nodes that no longer reference id.
C10_Frame ==
    Rewritten =>
        /\ nodes = Last.pre.nodes
        /\ regions = Last.pre.regions
        /\ Len(predecessors) = Len(Last.pre.predecessors)
        /\ \A s \in 0 .. (Len(predecessors) - 1) :
               /\ Len(PredsOf(Graph, s)) = Len(PredsOf(Last.pre, s))
               /\ s \notin Listed(Last.id) => PredsOf(Graph, s) = PredsOf(Last.pre, s)
               /\ \A i \in 1 .. Len(PredsOf(Last.pre, s)) :
                      \/ PredsOf(Graph, s)[i] = PredsOf(Last.pre, s)[i]
                      \/ /\ PredsOf(Last.pre, s)[i].node = Last.id
                         /\ Last.redo[PredsOf(Last.pre, s)[i].port] # None

\* A second call with a stale index: the node listed as a successor references `id` no
\* longer, it holds a link of another producer, and a node the index does not list
\* holds a link to `id`.
C10_Witness ==
    /\ Rewritten
    /\ Len(log) = 3
    /\ log[2].applied >= 1
    /\ \E s \in Listed(Last.id) : Last.id \notin Producers(Last.pre, s)
                                  /\ Producers(Last.pre, s) # {}
    /\ \E s \in Live(Graph) \ Listed(Last.id) : Last.id \in Producers(Last.pre, s)

----------------------------------------------------------------------------
(* Properties of moving the users of a node *)

\* C11: redo_ports_in_place(from, from) is a no-op on the graph: every predecessor list
\* is the same before and after the call.
C11_InPlaceSameIsNoOp ==
    (log # <<>> /\ Last.op = "redo_ports_in_place" /\ Last.from = Last.to) =>
        /\ predecessors = Last.pre.predecessors
        /\ nodes = Last.pre.nodes
        /\ regions = Last.pre.regions

\* A call with from = to that visited a link at a port other than the default one.
C11_Witness ==
    /\ log # <<>> /\ Last.op = "redo_ports_in_place" /\ ~Last.panic
    /\ Last.from = Last.to
    /\ Last.applied >= 1
    /\ \E s \in Listed(Last.from) : Link(Last.from, 1) \in Range(PredsOf(Graph, s))

\* An index built from roots R, a move of the users of `from` (not in R) to `to`, and
\* the index rebuilt from R.
Moves ==
    /\ Len(log) = 3
    /\ log[1].op = "successors" /\ log[2].op = "redo_ports_in_place"
    /\ log[3].op = "successors"
    /\ ~log[2].panic /\ ~log[3].panic
    /\ log[2].from \notin Range(log[1].roots)

\* The nodes reachable from R that held a link to `from` before the move.
FormerUsers ==
    {s \in Reachable(log[2].pre, log[1].roots) : log[2].from \in Producers(log[2].pre, s)}

\* Every former user link (from, p) of a reachable node reads (to, p).
Rewired ==
    \A s \in FormerUsers : \A i \in 1 .. Len(PredsOf(log[2].pre, s)) :
        PredsOf(log[2].pre, s)[i].node = log[2].from =>
            PredsOf(log[3].pre, s)[i] = Link(log[2].to, PredsOf(log[2].pre, s)[i].port)

\* The rebuilt index lists every former successor of `from` under `to`.
Relisted == \A s \in FormerUsers : s \in Range(cache[log[2].to + 1])

\* `from` is a marker of a region owned by a compound the visitor emits.
OwnedMarker ==
    \E c \in Range(log[3].out) : \E i \in 1 .. Len(RegionsOf(log[3].pre, c)) :
        log[2].from \in {RegionsOf(log[3].pre, c)[i].start, RegionsOf(log[3].pre, c)[i].end}

----------------------------------------------------------------------------
(* The index after a rewrite *)

\* The index holds no successor at all, as after Successors::clear.
Invalidated == \A n \in 1 .. Len(cache) : cache[n] = <<>>

\* The index agrees with the edges: under every node it lists exactly the nodes
\* reachable from the roots it was built from that hold a link to that node.
MatchesEdges ==
    \E reached \in {Reachable(Graph, log[1].roots)} :
        \A n \in 0 .. (Len(cache) - 1) : Range(cache[n + 1]) = UsersIn(Graph, reached, n)

\* C13: after a call of redo_ports that replaced at least one link the index either
\* matches the rewritten edges or is invalidated; it is not left usable and in
\* disagreement with the graph.
C13_IndexFollowsEdges ==
    (Rewritten /\ Len(log) = 2 /\ Last.applied >= 1) => (MatchesEdges \/ Invalidated)

----------------------------------------------------------------------------
(* Invariant-input relaxation *)

\* The links L such that in every region of Gamma `id` the end marker's input at position
\* `i` is a port q of that region's start marker with P[q] = L.
GammaSource(g, id, i) ==
    {L \in Range(PredsOf(g, id)) :
        \A j \in 1 .. Len(RegionsOf(g, id)) :
            /\ i < Len(PredsOf(g, RegionsOf(g, id)[j].end))
            /\ \E q \in 0 .. (Len(PredsOf(g, id)) - 1) :
                   /\ PredsOf(g, RegionsOf(g, id)[j].end)[i + 1]
                          = Link(RegionsOf(g, id)[j].start, q)
                   /\ PredsOf(g, id)[q + 1] = L}

\* The links P[i] such that the end marker's input at position `i` of the region of
\* Theta `id` is port i of the start marker.
ThetaSource(g, id, i) ==
    {L \in Range(PredsOf(g, id)) :
        /\ i < Len(PredsOf(g, RegionsOf(g, id)[1].end))
        /\ i < Len(PredsOf(g, id))
        /\ PredsOf(g, RegionsOf(g, id)[1].end)[i + 1] = Link(RegionsOf(g, id)[1].start, i)
        /\ PredsOf(g, id)[i + 1] = L}

SourceOf(g, id, i) ==
    IF g.nodes[id + 1] = "Gamma" THEN GammaSource(g, id, i) ELSE ThetaSource(g, id, i)

\* The positions (n, k) of the links to `id` that are replaced.
Replaced(g, id) ==
    UNION {{<<n, k>> : k \in {k \in 1 .. Len(PredsOf(g, n)) :
                                 /\ PredsOf(g, n)[k].node = id
                                 /\ SourceOf(g, id, PredsOf(g, n)[k].port) # {}}} :
           n \in Live(g) \cap Listed(id)}

\* Every link of the graph is the one of `g`, but for the replaced ones, which are the
\* source of the output they named.
LinksFollow(g, id) ==
    \A n \in Live(g) :
        /\ Len(PredsOf(Graph, n)) = Len(PredsOf(g, n))
        /\ \A k \in 1 .. Len(PredsOf(g, n)) :
               IF <<n, k>> \in Replaced(g, id)
               THEN SourceOf(g, id, PredsOf(g, n)[k].port) = {PredsOf(Graph, n)[k]}
               ELSE PredsOf(Graph, n)[k] = PredsOf(g, n)[k]

RelaxedKind(kinds) ==
    /\ log # <<>>
    /\ Last.op = "relax"
    /\ Last.pre.nodes[Last.id + 1] \in kinds

\* C14: a relaxation of a Gamma whose regions have end markers of equal arity replaces
\* a link (gamma, i) of a listed successor by L exactly when in every region the end
\* marker's input i is a start port q with P[q] = L; every other link is unchanged and
\* the result is the number of replaced links.
C14_GammaRelaxed ==
    RelaxedKind({"Gamma"}) =>
        /\ ~Last.panic
        /\ LinksFollow(Last.pre, Last.id)
        /\ Last.result = <<Cardinality(Replaced(Last.pre, Last.id))>>

\* A Gamma of two regions of which one output is replaced and another is kept.
C14_Witness ==
    /\ RelaxedKind({"Gamma"})
    /\ Len(RegionsOf(Last.pre, Last.id)) = 2
    /\ Last.result = <<1>>
    /\ \E n \in Live(Graph), k \in 1 .. (RelaxArity + 1) :
           k <= Len(PredsOf(Graph, n)) /\ PredsOf(Graph, n)[k].node = Last.id

\* C15: a relaxation of a Theta replaces a link (theta, i) of a listed successor by P[i]
\* exactly when the end marker's input i is port i of the start marker; links to outputs
\* computed in the body or read from another start port are unchanged.
C15_ThetaRelaxed ==
    RelaxedKind({"Theta"}) =>
        /\ ~Last.panic
        /\ LinksFollow(Last.pre, Last.id)
        /\ Last.result = <<Cardinality(Replaced(Last.pre, Last.id))>>

\* A Theta of which one output is replaced and the other reads another start port.
C15_Witness ==
    /\ RelaxedKind({"Theta"})
    /\ Last.result = <<1>>
    /\ \E i \in 1 .. RelaxArity :
           /\ PredsOf(Graph, RegionsOf(Graph, Last.id)[1].end)[i].node
                  = RegionsOf(Graph, Last.id)[1].start
           /\ PredsOf(Graph, RegionsOf(Graph, Last.id)[1].end)[i].port # i - 1
           /\ \E n \in Live(Graph), k \in 1 .. (RelaxArity + 1) :
                  k <= Len(PredsOf(Graph, n)) /\ PredsOf(Graph, n)[k] = Link(Last.id, i - 1)

\* C16: a relaxation of a node that is neither a Gamma nor a Theta returns the empty
\* result and leaves every node and every link unchanged.
C16_OtherKindsUntouched ==
    RelaxedKind({"Simple", "Start", "End", "Lambda", "Phi"}) =>
        /\ ~Last.panic
        /\ Last.result = None
        /\ Graph = Last.pre

\* A Lambda whose first output passes its first parameter through and has a user.
C16_Witness ==
    /\ RelaxedKind({"Lambda"})
    /\ PredsOf(Graph, RegionsOf(Graph, Last.id)[1].end)[1]
           = FromId(RegionsOf(Graph, Last.id)[1].start)
    /\ Listed(Last.id) # {}

\* The compound `id`, the markers of its regions and the nodes inside them.
Within(g, id) ==
    {id} \cup UNION {Closure(g, {RegionsOf(g, id)[j].end}) \cup {RegionsOf(g, id)[j].start} :
                        j \in 1 .. Len(RegionsOf(g, id))}

\* C17: a relaxation of a compound removes no node and changes no parameter list of the
\* compound, of the markers of its regions or of a node inside them; a list that changes
\* is the one of a listed successor outside the regions.
C17_RelaxKeepsInside ==
    (RelaxedKind({"Gamma", "Theta"}) /\ ~Last.panic) =>
        /\ nodes = Last.pre.nodes
        /\ regions = Last.pre.regions
        /\ \A n \in Within(Last.pre, Last.id) : PredsOf(Graph, n) = PredsOf(Last.pre, n)
        /\ \A n \in Live(Last.pre) :
               PredsOf(Graph, n) # PredsOf(Last.pre, n) =>
                   n \in Listed(Last.id) \ Within(Last.pre, Last.id)

\* A relaxation that replaced a link, of a compound whose end marker reads a start port.
C17_Witness ==
    /\ RelaxedKind({"Gamma", "Theta"})
    /\ ~Last.panic
    /\ Last.result \notin {None, <<0>>}
    /\ Cardinality(Within(Graph, Last.id)) >= 4

\* C18: a second relaxation of the same Gamma or Theta, after a sweep from the same
\* roots and a rebuild of the index, the compound being live still, replaces no link,
\* returns 0 and leaves the graph unchanged.
C18_RelaxIdempotent ==
    (RelaxedKind({"Gamma", "Theta"}) /\ Len(log) = 5) =>
        /\ ~Last.panic
        /\ Last.result = <<0>>
        /\ Graph = Last.pre

\* A second relaxation where the first one replaced a link.
C18_Witness ==
    /\ RelaxedKind({"Gamma", "Theta"})
    /\ Len(log) = 5
    /\ log[2].result \notin {None, <<0>>}
    /\ log[3].op = "sweep" /\ log[4].op = "successors"

\* The links to `id` held by the nodes reachable from the roots all name an output with
\* an entry in `maps`.
AllPassThrough(g, roots, id) ==
    \A n \in Reachable(g, roots) :
        \A k \in 1 .. Len(PredsOf(g, n)) :
            PredsOf(g, n)[k].node = id =>
                /\ PredsOf(g, n)[k].port < Len(maps)
                /\ maps[PredsOf(g, n)[k].port + 1] # None

\* The nodes of `inside` that no node outside of it holds a link to.
OnlyWithin(g, inside) ==
    {b \in inside :
        \A n \in Live(g) \ inside :
            \A k \in 1 .. Len(PredsOf(g, n)) : PredsOf(g, n)[k].node # b}

\* The markers of the regions of compound `id`.
MarkersOf(g, id) ==
    UNION {{RegionsOf(g, id)[j].start, RegionsOf(g, id)[j].end} :
              j \in 1 .. Len(RegionsOf(g, id))}

IndexRelaxSweep ==
    /\ Len(log) = 3
    /\ log[1].op = "successors" /\ log[2].op = "relax" /\ log[3].op = "sweep"
    /\ ~log[2].panic /\ log[2].result # None
    /\ log[2].id \notin Range(log[1].roots)
    /\ AllPassThrough(log[2].pre, log[1].roots, log[2].id)

\* C19: after index(R), relax(c), sweep(R) with c not in R, where every link to c held by
\* a node reachable from R names a pass-through output: c, the markers of its regions
\* and the body nodes referenced only from inside c are not live, and every node
\* reachable from R stays as it was.
C19_PassThroughSwept ==
    IndexRelaxSweep =>
        /\ \A n \in {log[2].id} \cup MarkersOf(log[2].pre, log[2].id)
                    \cup OnlyWithin(Last.pre, Within(Last.pre, log[2].id)) :
               ~IsLive(Graph, n)
        /\ \A n \in Reachable(Last.pre, log[1].roots) :
               /\ IsLive(Graph, n)
               /\ nodes[n + 1] = Last.pre.nodes[n + 1]
               /\ PredsOf(Graph, n) = PredsOf(Last.pre, n)

\* A sweep after a relaxation that replaced every link to a Gamma of two regions, one of
\* which has a body node read by its end marker.
C19_Witness ==
    /\ IndexRelaxSweep
    /\ log[2].result \notin {None, <<0>>}
    /\ Len(RegionsOf(log[2].pre, log[2].id)) = 2
    /\ Cardinality(Within(log[2].pre, log[2].id)) >= 6
    /\ ~IsLive(Graph, log[2].id)

----------------------------------------------------------------------------
(* Ownership of regions *)

\* The markers named at position `i` of the region list of compound `c`.
MarkersAt(c, i) == {regions[c][i].start, regions[c][i].end}

\* C20: after any sequence of store operations no start or end marker appears in the
\* region lists of two live compounds or twice in the list of one compound.
C20_RegionsOwnedOnce ==
    \A c \in DOMAIN regions, d \in DOMAIN regions :
        \A i \in 1 .. Len(regions[c]), j \in 1 .. Len(regions[d]) :
            (IsLive(Graph, c) /\ IsLive(Graph, d) /\ <<c, i>> # <<d, j>>) =>
                MarkersAt(c, i) \cap MarkersAt(d, j) = {}

----------------------------------------------------------------------------
(* Removal *)

\* The last call was `op`, of a compound that was live and had a region list.
RemovedCompound(ops) ==
    /\ log # <<>>
    /\ Last.op \in ops
    /\ IsLive(Last.pre, Last.arg)
    /\ IsCompound(Last.pre, Last.arg)
    /\ Last.arg \in DOMAIN Last.pre.regions

C22_RegionsDieWithCompound ==
    (RemovedCompound({"remove_node", "remove_compound"}) /\ ~IsLive(Graph, Last.arg)) =>
        /\ Last.arg \notin DOMAIN regions
        /\ \A n \in MarkersOf(Last.pre, Last.arg) : ~IsLive(Graph, n)

\* C23: remove_node of a key that is not live, and remove_compound of a key that is not
\* live and has no region list (a second call), return nothing and leave the arena, the
\* region map and the predecessor lists as they were.
C23_RemovalIdempotent ==
    (/\ log # <<>>
     /\ \/ Last.op = "remove_node"
        \/ Last.op = "remove_compound" /\ Last.arg \notin DOMAIN Last.pre.regions
     /\ ~IsLive(Last.pre, Last.arg)) =>
        /\ Last.result = <<>>
        /\ Graph = Last.pre

\* A second remove_compound of a key whose compound and markers were removed.
C23_Witness ==
    /\ log # <<>>
    /\ Last.op = "remove_compound"
    /\ Last.pre.nodes[Last.arg + 1] = "Vacant"
    /\ Last.arg \notin DOMAIN Last.pre.regions
    /\ Last.arg + 2 < Len(nodes)
    /\ nodes[Last.arg + 2] = "Vacant" /\ nodes[Last.arg + 3] = "Vacant"

\* C24: every link in the predecessor list of a live node names a live node.
C24_LinksNameLiveNodes ==
    \A n \in Live(Graph) :
        \A k \in 1 .. Len(PredsOf(Graph, n)) : IsLive(Graph, PredsOf(Graph, n)[k].node)

\* C25: add_gamma with regions whose end markers have different numbers of inputs
\* reports an error and leaves the graph as it was.
C25_GammaArityChecked ==
    (/\ log # <<>>
     /\ Last.op = "add_gamma"
     /\ \E i, j \in 1 .. Len(Last.arg) :
            Len(PredsOf(Last.pre, Last.arg[i].end)) # Len(PredsOf(Last.pre, Last.arg[j].end))) =>
        /\ Last.result = <<>>
        /\ Graph = Last.pre

----------------------------------------------------------------------------
(* Keys and the active count *)

NoClear == \A i \in 1 .. Len(log) : log[i].op # "clear"

\* C26: with the tagged identifier, in a sequence of insertions and removals every
\* insertion returns a key that no earlier insertion returned, also in a slot that is
\* used again, and a key whose node was removed does not resolve to a node.
C26_KeysNeverRecycled ==
    NoClear =>
        /\ \A i, j \in 1 .. Len(log) :
               (log[i].op = "insert" /\ log[j].op = "insert" /\ i # j) =>
                   log[i].key # log[j].key
        /\ \A i \in 1 .. Len(log) :
               (log[i].op = "remove" /\ log[i].result # <<>>) =>
                   ~resolves(Graph, versions, log[i].key)

\* A node is put in the slot of a removed one.
C26_Witness ==
    /\ NoClear
    /\ Len(log) >= 3
    /\ Last.op = "insert"
    /\ \E i \in 1 .. Len(log) :
           /\ log[i].op = "remove" /\ log[i].result # <<>>
           /\ log[i].key.index = Last.key.index

C28_InsertRemoveActive ==
    (/\ Len(log) >= 2
     /\ Last.op = "remove"
     /\ log[Len(log) - 1].op = "insert"
     /\ Last.key = log[Len(log) - 1].key) =>
        Active(Graph) = Active(log[Len(log) - 1].pre)

\* The insertion took a new last slot above a vacant one.
C28_Witness ==
    /\ Len(log) >= 2
    /\ Last.op = "remove"
    /\ log[Len(log) - 1].op = "insert"
    /\ Last.key = log[Len(log) - 1].key
    /\ Last.key.index >= Active(Graph) + 1

----------------------------------------------------------------------------
(* Roots that are not in the store, and a visitor used again *)

\* C29: a root that is not in the store, removed or never inserted, is skipped: the run
\* returns, the function is not applied to that root, and it is applied to every root
\* that is in the store.
C29_DeadRootSkipped ==
    (/\ log # <<>>
     /\ \E i \in 1 .. Len(Last.roots) : ~IsLive(Last.pre, Last.roots[i])) =>
        /\ ~Last.panic
        /\ \A i \in 1 .. Len(Last.roots) :
               IsLive(Last.pre, Last.roots[i]) <=> Last.roots[i] \in Range(Last.out)

\* C30: after a run of a visitor that was used before, seen() has the length active()
\* had when the run started and is true exactly at the nodes this run applied the
\* function to.
C30_SeenResetPerRun ==
    (Len(log) = 2 /\ ~Last.panic) =>
        /\ Len(seen) = Active(Last.pre)
        /\ \A i \in 1 .. Len(seen) : seen[i] <=> (i - 1) \in Range(Last.out)

\* The run before marked a node that this run does not reach, in a graph whose
\* active() was different.
C30_Witness ==
    /\ Len(log) = 2
    /\ ~Last.panic
    /\ Last.out # <<>>
    /\ Active(Last.pre) # Active(log[1].pre)
    /\ \E id \in Range(log[1].out) : IsLive(Last.pre, id) /\ id \notin Range(Last.out)

----------------------------------------------------------------------------
(* The operator built by single *)

\* C31: when the rule yields a witness, the node at id afterwards is the node stitch
\* returned, the operator returns the node that was at id, and id is the same live key;
\* when the rule yields nothing, stitch is not called, the operator returns nothing and
\* the node at id is not replaced.
C31_SingleReplacesInPlace ==
    (log # <<>> /\ Last.op = "single") =>
        IF Last.witness # <<>>
        THEN /\ Last.stitched # <<>>
             /\ nodes[Last.id + 1] = Last.stitched[1]
             /\ Last.result = <<Last.pre.nodes[Last.id + 1]>>
             /\ IsLive(Graph, Last.id)
        ELSE /\ Last.stitched = <<>>
             /\ Last.result = <<>>
             /\ Graph = Last.pre

\* The rule yielded nothing for one node; for the next it yielded a witness, and the
\* node was replaced by a node of another kind, the stitch having added a node.
C31_Witness ==
    /\ Len(log) = 2
    /\ log[1].witness = <<>>
    /\ Last.witness # <<>>
    /\ Last.result # Last.stitched
    /\ Len(nodes) > Len(Last.pre.nodes)

----------------------------------------------------------------------------
(* The depth-first searcher's order *)

\* The ids of the PostParameters events among `events`, in order.
RECURSIVE Posts(_)
Posts(events) ==
    IF events = <<>> THEN <<>>
    ELSE IF Head(events).tag = "PostParameters" THEN <<Head(events).n>> \o Posts(Tail(events))
    ELSE Posts(Tail(events))

\* The nodes a list of links names, in order.
Named(links) == [i \in 1 .. Len(links) |-> links[i].node]

RECURSIVE Flat(_)
Flat(lists) == IF lists = <<>> THEN <<>> ELSE Named(Head(lists)) \o Flat(Tail(lists))

\* The order the claim describes, as a walk: a node that is in the active set is taken
\* out of it, then come its parameter producers in parameter order, then the node, then
\* the results of its regions, regions in declaration order and results in list order.
\* `w` is the active set left and the nodes in order.
RECURSIVE WalkAll(_, _, _)
Walk(w, g, id) ==
    IF id \notin w.active THEN w
    ELSE LET taken == [w EXCEPT !.active = @ \ {id}]
             before == WalkAll(taken, g, Named(PredsOf(g, id)))
             at == [before EXCEPT !.order = Append(@, id)]
         IN  WalkAll(at, g, Flat(RegionsOf(g, id)))
WalkAll(w, g, ids) ==
    IF ids = <<>> THEN w ELSE WalkAll(Walk(w, g, Head(ids)), g, Tail(ids))

\* The nodes reached from `id` along parameter and result links.
Linked(g, id) ==
    Range(Named(PredsOf(g, id))) \cup Range(Flat(RegionsOf(g, id)))

RECURSIVE ReachIn(_, _, _)
ReachIn(g, S, allowed) ==
    LET T == S \cup (UNION {Linked(g, id) : id \in S} \cap allowed)
    IN  IF T = S THEN S ELSE ReachIn(g, T, allowed)

Once(order, id) == Cardinality({i \in 1 .. Len(order) : order[i] = id}) = 1

\* C32 as stated: every node that is reachable from start and in the active set gets
\* PostParameters exactly once.
C32_EveryReachableActive ==
    (log # <<>> /\ Last.op = "search" /\ Last.start \in Last.active) =>
        \A id \in ReachIn(Graph, {Last.start}, 0 .. (Len(nodes) - 1)) \cap Last.active :
            Once(Posts(Last.handled), id)

\* C32: the run emits PostParameters exactly once for each node that is reachable from
\* start through nodes of the active set, after its parameter producers in parameter
\* order and before the nodes first reached through its result lists in region and list
\* order; the emitted nodes leave the active set; a start outside it produces no event.
C32_SearchOrder ==
    (log # <<>> /\ Last.op = "search") =>
        /\ ~Last.panic
        /\ stack = <<>>
        /\ Posts(Last.handled) =
               Walk([active |-> Last.active, order |-> <<>>], Graph, Last.start).order
        /\ \A id \in Last.active :
               IF id \in ReachIn(Graph, {Last.start} \cap Last.active, Last.active)
               THEN Once(Posts(Last.handled), id) /\ id \notin seen
               ELSE id \notin Range(Posts(Last.handled)) /\ id \in seen
        /\ \A id \in Range(Posts(Last.handled)) :
               \A i \in 1 .. Len(PredsOf(Graph, id)) :
                   PredsOf(Graph, id)[i].node \in Last.active =>
                       \E a, b \in 1 .. Len(Posts(Last.handled)) :
                           /\ a < b
                           /\ Posts(Last.handled)[a] = PredsOf(Graph, id)[i].node
                           /\ Posts(Last.handled)[b] = id
        /\ Last.start \notin Last.active => Last.handled = <<>>

\* A Gamma with a parameter and a result in each of its two regions was walked from,
\* and three nodes were emitted.
C32_Witness ==
    /\ log # <<>>
    /\ Last.op = "search"
    /\ Last.start \in DOMAIN regions
    /\ PredsOf(Graph, Last.start) # <<>>
    /\ Len(regions[Last.start]) = 2
    /\ \A i \in 1 .. 2 : regions[Last.start][i] # <<>>
    /\ Len(Posts(Last.handled)) >= 3

----------------------------------------------------------------------------
(* Acyclicity and closure under the passes *)

\* No directed cycle over predecessor links together with the edges from a compound
\* to the markers of its regions.
Acyclic(g) == \A n \in Live(g) : n \notin Closure(g, Neighbors(g, n) \cap Live(g))

\* C33: a relaxation of a graph that has no cycle over predecessor links and region
\* containment, with a current successor index, leaves a graph that has none: every
\* link it writes names a producer of the relaxed compound.
C33_RelaxKeepsAcyclic ==
    (RelaxedKind({"Gamma", "Theta", "Lambda", "Phi", "Simple", "Start", "End"})
     /\ ~Last.panic /\ Acyclic(Last.pre)) =>
        /\ Acyclic(Graph)
        /\ \A n \in Live(Graph) : \A i \in 1 .. Len(PredsOf(Graph, n)) :
               PredsOf(Graph, n)[i] # PredsOf(Last.pre, n)[i] =>
                   PredsOf(Graph, n)[i] \in Range(PredsOf(Last.pre, Last.id))

\* A relaxation replaced a link of a user of the compound.
C33_Witness ==
    /\ RelaxedKind({"Gamma", "Theta"})
    /\ ~Last.panic
    /\ Acyclic(Last.pre)
    /\ predecessors # Last.pre.predecessors

\* Every link of a live node names a live node, and the markers of every region of a
\* live compound are live.
Closed(g) ==
    /\ \A n \in Live(g) : \A i \in 1 .. Len(PredsOf(g, n)) : IsLive(g, PredsOf(g, n)[i].node)
    /\ \A c \in Live(g) : \A i \in 1 .. Len(RegionsOf(g, c)) :
           IsLive(g, RegionsOf(g, c)[i].start) /\ IsLive(g, RegionsOf(g, c)[i].end)

\* C34: the sweep of a closed graph leaves a closed graph, every retained compound
\* keeping its region list, and changes no predecessor list.
C34_SweepKeepsClosed ==
    (Swept /\ Closed(Last.pre)) =>
        /\ Closed(Graph)
        /\ \A c \in Live(Graph) : RegionsOf(Graph, c) = RegionsOf(Last.pre, c)
        /\ predecessors = Last.pre.predecessors

\* A sweep removed a node that read a retained node, and retained a node with a link
\* and a compound with its markers.
C34_Witness ==
    /\ Swept
    /\ Closed(Last.pre)
    /\ \E n \in Live(Last.pre) \ Live(Graph) : \E i \in 1 .. Len(PredsOf(Last.pre, n)) :
           IsLive(Graph, PredsOf(Last.pre, n)[i].node)
    /\ \E n \in Live(Graph) : PredsOf(Graph, n) # <<>>
    /\ \E c \in Live(Graph) : RegionsOf(Graph, c) # <<>>

----------------------------------------------------------------------------
(* Termination of the visitor *)

\* A node reaches itself through predecessor links.
OnCycle(g, n) ==
    n \in Closure(g, {PredsOf(g, n)[i].node : i \in 1 .. Len(PredsOf(g, n))})

\* C35: run_with on a finite graph and live roots, the links forming a cycle or not,
\* applies the function to no node twice and comes to an empty work stack, where it
\* returns.
C35_RunTerminates ==
    /\ [](log # <<>> =>
            \A i, j \in 1 .. Len(Last.out) : Last.out[i] = Last.out[j] => i = j)
    /\ [](log # <<>> => <>(log # <<>> /\ ~Last.panic /\ stack = <<>>))

\* A run returned that emitted two nodes which lie on a cycle.
C35_Witness ==
    /\ log # <<>>
    /\ ~Last.panic
    /\ stack = <<>>
    /\ Len(Last.out) >= 2
    /\ \E n \in Range(Last.out) : OnCycle(Graph, n)

----------------------------------------------------------------------------
(* The hash-map successor cache and the port rewriting that reads it *)

\* C36: after each run of the index on an instance that was used before, a node s is
\* listed under n only if this run's roots reach s and s names n now.
C36_CacheOnlyCurrent ==
    (log # <<>> /\ Last.op = "index" /\ ~Last.panic /\ Len(log) >= 2) =>
        \A n \in DOMAIN cache : \A s \in Range(cache[n]) :
            /\ s \in Reachable(Graph, Last.roots)
            /\ \E i \in 1 .. Len(PredsOf(Graph, s)) : PredsOf(Graph, s)[i].node = n

\* C39: redo_ports for a live node that has no successor in the index returns without
\* abort and replaces no link.
C39_RedoWithoutSuccessors ==
    (/\ log # <<>>
     /\ Last.op = "redo_ports"
     /\ IsLive(Last.pre, Last.from)
     /\ EntryOf(cache, Last.from) = <<>>) =>
        /\ ~Last.panic
        /\ predecessors = Last.pre.predecessors

----------------------------------------------------------------------------
(* The order of the pass traversals *)

\* The position of a node in a list of emitted nodes, 0 if it is not there.
PlaceIn(out, n) ==
    IF n \in Range(out) THEN CHOOSE i \in 1 .. Len(out) : out[i] = n ELSE 0

\* The nodes of `out` are in an order where each comes after its predecessors and
\* after the markers of its regions.
LeavesFirst(g, out) ==
    \A i \in 1 .. Len(out) : \A m \in Neighbors(g, out[i]) :
        PlaceIn(out, m) # 0 /\ PlaceIn(out, m) < i

\* C37: on every acyclic graph, ReverseTopological::run_with and PreOrderMut::run_with
\* apply the operation to a node only after they applied it to the node of every link
\* of its predecessor list and to the markers of its regions.
C37_PredecessorsFirst ==
    (/\ log # <<>>
     /\ Last.op \in {"traverse", "pre_order_mut"}
     /\ ~Last.panic
     /\ Acyclic(Last.pre)) =>
        LeavesFirst(Last.pre, Last.out)

\* The part that holds: each node that the roots reach is given to the operation once,
\* and a node is given to it after everything that was pushed by its expansion.
TraversalCoversReachable ==
    (log # <<>> /\ Last.op \in {"traverse", "pre_order_mut"} /\ ~Last.panic) =>
        /\ Range(Last.out) = Reachable(Last.pre, Last.roots)
        /\ \A i, j \in 1 .. Len(Last.out) : Last.out[i] = Last.out[j] => i = j

----------------------------------------------------------------------------
(* The predecessor vector under insertion, removal and clear *)

\* C38: in every state reached through add_node, add_region, add_compound, add_gamma,
\* remove_node, remove_compound and clear, the index of each live node is a position
\* of the predecessor vector, and right after add_node the list of the node it made is
\* empty, whatever the slot held before.
C38_PredecessorsCoverLive ==
    /\ \A id \in Live(Graph) : id < Len(predecessors)
    /\ (log # <<>> /\ Last.op = "add_node") => PredsOf(Graph, Last.result[1]) = <<>>

\* add_node filled the slot of a removed node whose list was not empty.
C38_Witness ==
    /\ log # <<>>
    /\ Last.op = "add_node"
    /\ Last.result[1] < Len(Last.pre.nodes)
    /\ Last.pre.nodes[Last.result[1] + 1] = "Vacant"
    /\ PredsOf(Last.pre, Last.result[1]) # <<>>

\* add_node after clear() found a list that was not empty.
AddedAfterClear ==
    /\ log # <<>>
    /\ Last.op = "add_node"
    /\ Last.pre.nodes = <<>>
    /\ Last.result[1] < Len(Last.pre.predecessors)
    /\ PredsOf(Last.pre, Last.result[1]) # <<>>

====
